---- MODULE Spec2Model ----
(***************************************************************************)
(* A model of the protocol translation core of AnthropicProxy:            *)
(*   - src/src/streaming.ts  handleAnthropicStreamingResponseFromOpenAIStream *)
(*   - src/src/converter.ts  convertAnthropicToOpenAIMessages              *)
(*   - src/src/tokenizer.ts  getTokenEncoder                               *)
(*                                                                         *)
(* Conventions.  A JavaScript string is a TLA+ string; "" stands for every *)
(* falsy string-valued input (undefined, null, ""), which the code never   *)
(* tells apart (it only tests truthiness).  A tool-call id is a sequence   *)
(* of string pieces so that startsWith('tool_ph_') is computed, not        *)
(* assumed.  null for a block index is NoIdx.                              *)
(***************************************************************************)
EXTENDS Integers, Sequences, FiniteSets, TLC

VARIABLES
    tokenEncoderCache,  \* tokenizer.ts: the process-wide encoder cache ("empty" or the encoder held)
    phase,              \* position of the streaming handler: NotStarted, Active, Closed, Erred
    st,                 \* the local variables of one run of the streaming handler
    res,                \* the express Response: head writes, SSE events written, end() calls
    pulled,             \* the chunks the upstream stream has yielded so far
    thrown,             \* the message of the exception caught by the handler ("" if none)
    logged,             \* the records handed to the logger by the streaming handler
    clientConnected,    \* whether the downstream client is still connected
    pulledAtDisconnect, \* Len(pulled) when the client disconnected (NoIdx while connected)
    convIn,             \* converter: the arguments of convertAnthropicToOpenAIMessages
    convOut,            \* converter: the returned message list
    convPc,             \* converter: "idle" before the call, "done" after it
    respIn,             \* converter: the arguments of convertOpenAIToAnthropicResponse
    respOut,            \* converter: the returned MessagesResponse
    respPc,             \* converter: "idle", "ready" (a completion has arrived), "done"
    errIn,              \* errors.ts: the exception given to getAnthropicErrorDetailsFromException
    errOut,             \* errors.ts: the details returned
    errPc,              \* errors.ts: "idle", "ready" (an exception was caught), "done"
    selIn,              \* converter: the arguments of selectTargetModel
    selOut,             \* converter: the model name returned and the warnings logged
    selPc,              \* converter: "idle", "ready", "done"
    srv,                \* server.ts: one /v1/messages request and its response
    proc                \* one process serving requests concurrently: its encoder cache and handlers

vars == <<tokenEncoderCache, phase, st, res, pulled, thrown, logged, clientConnected,
          pulledAtDisconnect, convIn, convOut, convPc, respIn, respOut, respPc,
          errIn, errOut, errPc, selIn, selOut, selPc, srv, proc>>

streamVars == <<tokenEncoderCache, phase, st, res, pulled, thrown, logged, clientConnected,
                pulledAtDisconnect>>
convVars == <<convIn, convOut, convPc>>
respVars == <<respIn, respOut, respPc>>
errVars == <<errIn, errOut, errPc>>
selVars == <<selIn, selOut, selPc>>
\* what a run of the streaming handler never touches
offStreamVars == <<convVars, respVars, errVars, selVars, srv, proc>>

----------------------------------------------------------------------------
(* Bounds of the model *)

\* the number of chunks pulled from the upstream stream in one run
MaxFragments == 3

\* the number of content blocks of the source message under conversion
MaxBlocks == 3

----------------------------------------------------------------------------
(* Values *)

\* `null` of textBlockAnthropicIdx (streaming.ts:27)
NoIdx == -1

\* the arguments of the handler call (streaming.ts:16-22)
requestId == "req1"
originalAnthropicModelName == "claude-3-opus-20240229"
estimatedInputTokens == 7

\* an absent tool-call id
NoId == <<>>

\* `tool_ph_${requestId}_${idx}` (streaming.ts:122)
PlaceholderId(idx) == <<"tool_ph_", requestId, "_", ToString(idx)>>

\* id.startsWith('tool_ph_') (streaming.ts:139, 162)
StartsWithToolPh(id) == Len(id) > 0 /\ id[1] = "tool_ph_"

\* a text on which tiktoken's encode throws: a special token is disallowed by default
SpecialTokenText == "<|endoftext|>"

\* getTokenEncoder: which encoder the first call caches: the tiktoken encoding
\* cl100k_base (what encoding_for_model('gpt-4') and get_encoding('cl100k_base')
\* both build) or the dummy encoder (tokenizer.ts:10-51)
EncoderOutcomes == {"cl100k_base", "dummy"}

\* encoder.encode(text).length, -1 when encode throws.  The dummy encoder
\* (tokenizer.ts:37) yields one token per character; tiktoken is external: it is
\* modelled as one token for a short text, and it rejects special tokens.
EncodeLength(encoder, text) ==
    IF encoder = "dummy" THEN Len(text)
    ELSE IF text = SpecialTokenText THEN -1
    ELSE IF text = "" THEN 0
    ELSE 1

\* the message of the error tiktoken throws
EncodeErrorMessage == "The text contains a special token that is not allowed"

\* the TypeError of reading delta.content when choices[0].delta is missing
MalformedErrorMessage == "Cannot read properties of undefined (reading 'content')"

\* the messages of the errors the upstream iteration can throw
UpstreamErrorMessages == {"socket hang up"}

----------------------------------------------------------------------------
(* The upstream chunks (ChatCompletionChunk) the model draws from *)

ToolDelta(index, id, name, arguments) ==
    [index |-> index, id |-> id, name |-> name, arguments |-> arguments]

\* deltas of the tool call in OpenAI slot 0
ToolDeltas0 ==
    {ToolDelta(0, id, name, "") : id \in {NoId, <<"t1">>}, name \in {"", "get_weather"}}
    \cup {ToolDelta(0, <<"t1">>, "get_weather", "{")}
    \cup {ToolDelta(0, NoId, "", arguments) : arguments \in {"{", "}", SpecialTokenText}}

\* deltas of the tool call in OpenAI slot 1
ToolDeltas1 ==
    {ToolDelta(1, NoId, "", ""), ToolDelta(1, <<"t2">>, "get_time", "{")}

Chunk(choices, delta, content, tool_calls, finish_reason) ==
    [choices |-> choices, delta |-> delta, content |-> content,
     tool_calls |-> tool_calls, finish_reason |-> finish_reason]

\* chunks without a finish reason
OpenChunks ==
    {Chunk(FALSE, FALSE, "", <<>>, "")}                          \* choices: []
    \cup {Chunk(TRUE, FALSE, "", <<>>, "")}                      \* choices[0].delta missing
    \cup {Chunk(TRUE, TRUE, c, <<>>, "") : c \in {"Hi", SpecialTokenText}}
    \cup {Chunk(TRUE, TRUE, "", <<d>>, "") : d \in ToolDeltas0 \cup ToolDeltas1}
    \cup {Chunk(TRUE, TRUE, "Hi",
                <<ToolDelta(1, <<"t2">>, "get_time", "{"), ToolDelta(0, <<"t1">>, "get_weather", "}")>>, "")}

\* the finish reasons a backend may send: the five of the table, one the table
\* does not hold, and one that names a property every JavaScript object inherits
FinishReasons ==
    {"stop", "length", "tool_calls", "function_call", "content_filter", "eos", "constructor"}

\* chunks with a finish reason
TerminalChunks ==
    {Chunk(TRUE, TRUE, "", <<>>, fr) : fr \in FinishReasons}
    \cup {Chunk(TRUE, TRUE, "Hi", <<>>, "stop")}
    \cup {Chunk(TRUE, TRUE, "", <<ToolDelta(0, <<"t1">>, "get_weather", "}")>>, "tool_calls")}

Chunks == OpenChunks \cup TerminalChunks

----------------------------------------------------------------------------
(* The streaming handler, streaming.ts *)

\* the handler's local variables as declared (streaming.ts:24-47)
InitialLocals ==
    [encoder |-> "none",
     nextAnthropicBlockIdx |-> 0,
     textBlockAnthropicIdx |-> NoIdx,
     openaiToolIdxToAnthropicBlockIdx |-> <<>>,
     toolStates |-> <<>>,
     sentToolBlockStarts |-> <<>>,
     outputTokenCount |-> 0,
     finalAnthropicStopReason |-> "null",
     streamStatusCode |-> 200,
     streamFinalMessage |-> "Streaming request completed successfully.",
     streamLogEvent |-> "REQUEST_COMPLETED"]

\* a frame: the locals, the events written, the records logged and the exception in flight
Frame(locals, events, log, exc) ==
    [st |-> locals, events |-> events, logged |-> log, thrown |-> exc]

\* writeSSE (streaming.ts:57-59)
writeSSE(f, data) == [f EXCEPT !.events = Append(@, data)]

Log(f, record) == [f EXCEPT !.logged = Append(@, record)]

Throw(f, message) == [f EXCEPT !.thrown = message]

\* Set.prototype.has on the insertion-ordered set sentToolBlockStarts
SetHas(set, x) == \E i \in 1..Len(set) : set[i] = x

\* Map.prototype.has / get / set on a map kept as a function
MapHas(map, k) == k \in DOMAIN map
MapSet(map, k, v) == IF k \in DOMAIN map THEN [map EXCEPT ![k] = v] ELSE (k :> v) @@ map

\* a mutant of messageStartEventData: the model name of the backend is echoed
messageStartEventData_BackendModel ==
    [type |-> "message_start",
     id |-> <<"msg_stream_", requestId>>,
     role |-> "assistant",
     model |-> "big-model",
     stop_reason |-> "null",
     input_tokens |-> estimatedInputTokens,
     output_tokens |-> 0]

\* the message_start event (streaming.ts:63-76)
messageStartEventData ==
    [type |-> "message_start",
     id |-> <<"msg_stream_", requestId>>,
     role |-> "assistant",
     model |-> originalAnthropicModelName,
     stop_reason |-> "null",
     input_tokens |-> estimatedInputTokens,
     output_tokens |-> 0]

startTextEvent(index) ==
    [type |-> "content_block_start", index |-> index,
     content_block |-> [type |-> "text", text |-> ""]]

textDeltaEvent(index, text) ==
    [type |-> "content_block_delta", index |-> index,
     delta |-> [type |-> "text_delta", text |-> text]]

startToolEvent(index, toolState) ==
    [type |-> "content_block_start", index |-> index,
     content_block |-> [type |-> "tool_use", id |-> toolState.id,
                        name |-> toolState.name, input |-> "{}"]]

argsDeltaEvent(index, arguments) ==
    [type |-> "content_block_delta", index |-> index,
     delta |-> [type |-> "input_json_delta", partial_json |-> arguments]]

stopEvent(index) == [type |-> "content_block_stop", index |-> index]

\* a mutant of HandleContentDelta: every text delta opens a block
HandleContentDelta_ReopensBlock(f, content) ==
    IF content = "" THEN f
    ELSE
      LET n == EncodeLength(f.st.encoder, content) IN
      IF n < 0 THEN Throw(f, EncodeErrorMessage)
      ELSE
        LET f1 == [f EXCEPT !.st.outputTokenCount = @ + n]
            f2 == writeSSE([f1 EXCEPT !.st.textBlockAnthropicIdx = f1.st.nextAnthropicBlockIdx,
                                     !.st.nextAnthropicBlockIdx = @ + 1],
                           startTextEvent(f1.st.nextAnthropicBlockIdx))
        IN writeSSE(f2, textDeltaEvent(f2.st.textBlockAnthropicIdx, content))

\* Handle content delta (streaming.ts:87-109)
HandleContentDelta(f, content) ==
    IF content = "" THEN f
    ELSE
      LET n == EncodeLength(f.st.encoder, content) IN
      IF n < 0 THEN Throw(f, EncodeErrorMessage)
      ELSE
        LET f1 == [f EXCEPT !.st.outputTokenCount = @ + n]
            f2 == IF f1.st.textBlockAnthropicIdx = NoIdx
                  THEN writeSSE([f1 EXCEPT !.st.textBlockAnthropicIdx = f1.st.nextAnthropicBlockIdx,
                                           !.st.nextAnthropicBlockIdx = @ + 1],
                                startTextEvent(f1.st.nextAnthropicBlockIdx))
                  ELSE f1
        IN writeSSE(f2, textDeltaEvent(f2.st.textBlockAnthropicIdx, content))

\* a mutant of RegisterToolIndex: the next free index is left as it is
RegisterToolIndex_ReusesIndex(f, toolDelta) ==
    IF MapHas(f.st.openaiToolIdxToAnthropicBlockIdx, toolDelta.index) THEN f
    ELSE
      LET idx == f.st.nextAnthropicBlockIdx
          f1 == [f EXCEPT
                   !.st.openaiToolIdxToAnthropicBlockIdx = MapSet(@, toolDelta.index, idx),
                   !.st.toolStates = MapSet(@, idx,
                       [id |-> IF toolDelta.id # NoId THEN toolDelta.id ELSE PlaceholderId(idx),
                        name |-> "", arguments_buffer |-> ""])]
      IN IF toolDelta.id = NoId
         THEN Log(f1, [event |-> "TOOL_ID_PLACEHOLDER", index |-> idx])
         ELSE f1

\* first sight of an OpenAI tool index (streaming.ts:116-134)
RegisterToolIndex(f, toolDelta) ==
    IF MapHas(f.st.openaiToolIdxToAnthropicBlockIdx, toolDelta.index) THEN f
    ELSE
      LET idx == f.st.nextAnthropicBlockIdx
          f1 == [f EXCEPT
                   !.st.nextAnthropicBlockIdx = @ + 1,
                   !.st.openaiToolIdxToAnthropicBlockIdx = MapSet(@, toolDelta.index, idx),
                   !.st.toolStates = MapSet(@, idx,
                       [id |-> IF toolDelta.id # NoId THEN toolDelta.id ELSE PlaceholderId(idx),
                        name |-> "", arguments_buffer |-> ""])]
      IN IF toolDelta.id = NoId
         THEN Log(f1, [event |-> "TOOL_ID_PLACEHOLDER", index |-> idx])
         ELSE f1

\* a real id replaces a placeholder (streaming.ts:139-146)
UpdateToolId(f, idx, toolDelta) ==
    IF toolDelta.id # NoId /\ StartsWithToolPh(f.st.toolStates[idx].id)
    THEN [Log(f, [event |-> "TOOL_ID_UPDATED", index |-> idx])
            EXCEPT !.st.toolStates[idx].id = toolDelta.id]
    ELSE f

\* a mutant of AccumulateFunction: a fragment takes the place of the buffer
AccumulateFunction_Overwrites(f, idx, toolDelta) ==
    LET f1 == IF toolDelta.name # ""
              THEN [f EXCEPT !.st.toolStates[idx].name = toolDelta.name]
              ELSE f
    IN IF toolDelta.arguments = "" THEN f1
       ELSE
         LET f2 == [f1 EXCEPT !.st.toolStates[idx].arguments_buffer = toolDelta.arguments]
             n == EncodeLength(f.st.encoder, toolDelta.arguments)
         IN IF n < 0 THEN Throw(f2, EncodeErrorMessage)
            ELSE [f2 EXCEPT !.st.outputTokenCount = @ + n]

\* a mutant of AccumulateFunction: the tokens of a fragment are counted only
\* once the block's start has been sent
AccumulateFunction_CountsSentOnly(f, idx, toolDelta) ==
    LET f1 == IF toolDelta.name # ""
              THEN [f EXCEPT !.st.toolStates[idx].name = toolDelta.name]
              ELSE f
    IN IF toolDelta.arguments = "" THEN f1
       ELSE
         LET f2 == [f1 EXCEPT !.st.toolStates[idx].arguments_buffer = @ \o toolDelta.arguments]
             n == EncodeLength(f.st.encoder, toolDelta.arguments)
         IN IF n < 0 THEN Throw(f2, EncodeErrorMessage)
            ELSE IF SetHas(f.st.sentToolBlockStarts, idx)
                 THEN [f2 EXCEPT !.st.outputTokenCount = @ + n]
                 ELSE f2

\* name and arguments of toolDelta.function (streaming.ts:148-156)
AccumulateFunction(f, idx, toolDelta) ==
    LET f1 == IF toolDelta.name # ""
              THEN [f EXCEPT !.st.toolStates[idx].name = toolDelta.name]
              ELSE f
    IN IF toolDelta.arguments = "" THEN f1
       ELSE
         LET f2 == [f1 EXCEPT !.st.toolStates[idx].arguments_buffer = @ \o toolDelta.arguments]
             n == EncodeLength(f.st.encoder, toolDelta.arguments)
         IN IF n < 0 THEN Throw(f2, EncodeErrorMessage)
            ELSE [f2 EXCEPT !.st.outputTokenCount = @ + n]

\* a mutant of SendToolStartIfReady: a placeholder id is good enough
SendToolStartIfReady_AcceptsPlaceholder(f, idx) ==
    LET toolState == f.st.toolStates[idx] IN
    IF /\ ~SetHas(f.st.sentToolBlockStarts, idx)
       /\ toolState.id # NoId
       /\ toolState.name # ""
    THEN [writeSSE(f, startToolEvent(idx, toolState))
            EXCEPT !.st.sentToolBlockStarts = Append(@, idx)]
    ELSE f

\* a mutant of SendToolStartIfReady: the start is sent whenever the block is
\* ready, whether or not it was sent before
SendToolStartIfReady_NoOnceGuard(f, idx) ==
    LET toolState == f.st.toolStates[idx] IN
    IF /\ toolState.id # NoId
       /\ ~StartsWithToolPh(toolState.id)
       /\ toolState.name # ""
    THEN [writeSSE(f, startToolEvent(idx, toolState))
            EXCEPT !.st.sentToolBlockStarts = Append(@, idx)]
    ELSE f

\* Send content_block_start for tool if ready (streaming.ts:158-177)
SendToolStartIfReady(f, idx) ==
    LET toolState == f.st.toolStates[idx] IN
    IF /\ ~SetHas(f.st.sentToolBlockStarts, idx)
       /\ toolState.id # NoId
       /\ ~StartsWithToolPh(toolState.id)
       /\ toolState.name # ""
    THEN [writeSSE(f, startToolEvent(idx, toolState))
            EXCEPT !.st.sentToolBlockStarts = Append(@, idx)]
    ELSE f

\* a mutant of SendArgsDelta: a fragment is written whether or not the block
\* has started
SendArgsDelta_Unconditional(f, idx, toolDelta) ==
    IF toolDelta.arguments # ""
    THEN writeSSE(f, argsDeltaEvent(idx, toolDelta.arguments))
    ELSE f

\* Send tool arguments delta (streaming.ts:179-193)
SendArgsDelta(f, idx, toolDelta) ==
    IF toolDelta.arguments # "" /\ SetHas(f.st.sentToolBlockStarts, idx)
    THEN writeSSE(f, argsDeltaEvent(idx, toolDelta.arguments))
    ELSE f

\* a mutant of HandleToolDelta: the arguments delta is decided before the start
HandleToolDelta_DeltaBeforeStart(f, toolDelta) ==
    LET f1 == RegisterToolIndex(f, toolDelta)
        idx == f1.st.openaiToolIdxToAnthropicBlockIdx[toolDelta.index]
        f2 == UpdateToolId(f1, idx, toolDelta)
        f3 == AccumulateFunction(f2, idx, toolDelta)
    IN IF f3.thrown # "" THEN f3
       ELSE SendToolStartIfReady(SendArgsDelta(f3, idx, toolDelta), idx)

\* the body of the loop over delta.tool_calls (streaming.ts:113-194)
HandleToolDelta(f, toolDelta) ==
    LET f1 == RegisterToolIndex(f, toolDelta)
        idx == f1.st.openaiToolIdxToAnthropicBlockIdx[toolDelta.index]
        f2 == UpdateToolId(f1, idx, toolDelta)
        f3 == AccumulateFunction(f2, idx, toolDelta)
    IN IF f3.thrown # "" THEN f3
       ELSE SendArgsDelta(SendToolStartIfReady(f3, idx), idx, toolDelta)

\* for (const toolDelta of delta.tool_calls) (streaming.ts:112-195)
RECURSIVE HandleToolCalls(_, _)
HandleToolCalls(f, tool_calls) ==
    IF tool_calls = <<>> \/ f.thrown # "" THEN f
    ELSE HandleToolCalls(HandleToolDelta(f, Head(tool_calls)), Tail(tool_calls))
\* openaiToAnthropicStopReasonMap (streaming.ts:37-43)
openaiToAnthropicStopReasonMap ==
    [stop |-> "end_turn", length |-> "max_tokens", tool_calls |-> "tool_use",
     function_call |-> "tool_use", content_filter |-> "stop_sequence"]

\* the property names an object literal inherits from Object.prototype; each is a
\* function, hence truthy
ObjectPrototypeKeys ==
    {"constructor", "toString", "valueOf", "hasOwnProperty", "isPrototypeOf",
     "propertyIsEnumerable", "toLocaleString"}

\* the value of an inherited property, as a stop reason it is no string
InheritedFunction == "[Function]"

\* openaiToAnthropicStopReasonMap[openaiFinishReason] || 'end_turn' (streaming.ts:199)
StopReasonLookup(openaiFinishReason) ==
    IF openaiFinishReason \in DOMAIN openaiToAnthropicStopReasonMap
    THEN openaiToAnthropicStopReasonMap[openaiFinishReason]
    ELSE IF openaiFinishReason \in ObjectPrototypeKeys THEN InheritedFunction
    ELSE "end_turn"

\* Handle finish reason (streaming.ts:197-204)
HandleFinishReason(f, openaiFinishReason) ==
    IF openaiFinishReason = "" THEN f
    ELSE [f EXCEPT !.st.finalAnthropicStopReason =
             IF openaiFinishReason = "tool_calls" THEN "tool_use"
             ELSE StopReasonLookup(openaiFinishReason)]

\* one iteration of the for await loop (streaming.ts:79-205)
ProcessChunk(f, chunk) ==
    IF ~chunk.choices THEN f
    ELSE IF ~chunk.delta THEN Throw(f, MalformedErrorMessage)
    ELSE
      LET f1 == HandleContentDelta(f, chunk.content) IN
      IF f1.thrown # "" THEN f1
      ELSE
        LET f2 == HandleToolCalls(f1, chunk.tool_calls) IN
        IF f2.thrown # "" THEN f2
        ELSE HandleFinishReason(f2, chunk.finish_reason)

\* a loop that no finish reason ends
Breaks_Never(chunk) == FALSE

\* whether the iteration ends the loop with break (streaming.ts:198-204)
Breaks(chunk) == chunk.choices /\ chunk.delta /\ chunk.finish_reason # ""

\* JSON.parse(arguments_buffer) succeeds: over the fragments "{" and "}" the
\* model draws, the only JSON text is "{}"
JSONParses(text) == text = "{}"

\* a mutant of StopToolBlocks: a block whose buffer does not parse gets no stop
RECURSIVE StopToolBlocks_SkipUnparsable(_, _)
StopToolBlocks_SkipUnparsable(f, sent) ==
    IF sent = <<>> THEN f
    ELSE
      LET anthropicToolIdx == Head(sent)
          toolStateToFinalize == f.st.toolStates[anthropicToolIdx]
      IN IF JSONParses(toolStateToFinalize.arguments_buffer)
         THEN StopToolBlocks_SkipUnparsable(writeSSE(f, stopEvent(anthropicToolIdx)), Tail(sent))
         ELSE StopToolBlocks_SkipUnparsable(
                  Log(f, [event |-> "TOOL_ARGS_PARSE_FAILURE", index |-> anthropicToolIdx,
                          buffered_args |-> toolStateToFinalize.arguments_buffer]),
                  Tail(sent))

\* the loop over sentToolBlockStarts, in the Set's iteration order, which is the
\* order of insertion (streaming.ts:212-229)
RECURSIVE StopToolBlocks(_, _)
StopToolBlocks(f, sent) ==
    IF sent = <<>> THEN f
    ELSE
      LET anthropicToolIdx == Head(sent)
          toolStateToFinalize == f.st.toolStates[anthropicToolIdx]
          f1 == IF JSONParses(toolStateToFinalize.arguments_buffer) THEN f
                ELSE Log(f, [event |-> "TOOL_ARGS_PARSE_FAILURE", index |-> anthropicToolIdx,
                             buffered_args |-> toolStateToFinalize.arguments_buffer])
      IN StopToolBlocks(writeSSE(f1, stopEvent(anthropicToolIdx)), Tail(sent))

\* JSON.stringify drops a property whose value is a function
JSONProperty(value) == IF value = InheritedFunction THEN "<omitted>" ELSE value

messageDeltaEvent(stop_reason, output_tokens) ==
    [type |-> "message_delta", stop_reason |-> JSONProperty(stop_reason),
     output_tokens |-> output_tokens]

\* the code after the loop, to the end of the try block (streaming.ts:207-245)
Finalization(f) ==
    LET f1 == IF f.st.textBlockAnthropicIdx # NoIdx
              THEN writeSSE(f, stopEvent(f.st.textBlockAnthropicIdx))
              ELSE f
        f2 == StopToolBlocks(f1, f1.st.sentToolBlockStarts)
        f3 == IF f2.st.finalAnthropicStopReason = "null"
              THEN [f2 EXCEPT !.st.finalAnthropicStopReason = "end_turn"]
              ELSE f2
        f4 == writeSSE(f3, messageDeltaEvent(f3.st.finalAnthropicStopReason,
                                             f3.st.outputTokenCount))
    IN writeSSE(f4, [type |-> "message_stop"])

errorResponse(errorType, message) ==
    [type |-> "error", error |-> [type |-> errorType, message |-> message]]

\* a mutant of CatchBlock: the log event is left as it was
CatchBlock_KeepsLogEvent(f) ==
    LET errorMsgStr == f.thrown
        f1 == [f EXCEPT !.st.streamStatusCode = 500,
                        !.st.streamFinalMessage = "Error during OpenAI stream conversion: " \o errorMsgStr,
                        !.st.finalAnthropicStopReason = "error"]
        f2 == Log(f1, [event |-> "STREAM_INTERRUPTED", error_type |-> "api_error"])
    IN writeSSE(f2, errorResponse("api_error", errorMsgStr))

\* the catch block (streaming.ts:247-271)
CatchBlock(f) ==
    LET errorMsgStr == f.thrown
        f1 == [f EXCEPT !.st.streamStatusCode = 500,
                        !.st.streamLogEvent = "REQUEST_FAILURE",
                        !.st.streamFinalMessage = "Error during OpenAI stream conversion: " \o errorMsgStr,
                        !.st.finalAnthropicStopReason = "error"]
        f2 == Log(f1, [event |-> "STREAM_INTERRUPTED", error_type |-> "api_error"])
    IN writeSSE(f2, errorResponse("api_error", errorMsgStr))

\* the finally block but for res.end() (streaming.ts:272-296)
FinallyBlock(f) ==
    Log(f, [event |-> f.st.streamLogEvent,
            status_code |-> f.st.streamStatusCode,
            output_tokens |-> f.st.outputTokenCount,
            stop_reason |-> JSONProperty(f.st.finalAnthropicStopReason)])

\* what runs once the loop is left: the rest of the try block, or the catch
\* block when an exception is in flight, then the finally block
Epilogue(f) == FinallyBlock(IF f.thrown # "" THEN CatchBlock(f) ELSE Finalization(f))

----------------------------------------------------------------------------
(* The token encoder, tokenizer.ts *)

\* getTokenEncoder: the cache after the call, `loaded` being the encoder a first
\* call manages to build (tokenizer.ts:7-54)
getTokenEncoder(cache, loaded) == IF cache = "empty" THEN loaded ELSE cache

----------------------------------------------------------------------------
(* Actions of the streaming handler *)

CurrentFrame == Frame(st, res.events, logged, "")

\* the frame becomes the state; `ended` tells whether the handler has run to its end
Commit(f, ended) ==
    /\ st' = f.st
    /\ res' = [res EXCEPT !.events = f.events, !.ends = IF ended THEN @ + 1 ELSE @]
    /\ logged' = f.logged
    /\ thrown' = f.thrown
    /\ phase' = IF ~ended THEN "Active" ELSE IF f.thrown # "" THEN "Erred" ELSE "Closed"

\* the call of the handler up to its first await: the encoder, the SSE headers,
\* message_start and ping (streaming.ts:24-79)
StartStream ==
    /\ phase = "NotStarted"
    /\ \E loaded \in EncoderOutcomes :
         /\ tokenEncoderCache' = getTokenEncoder(tokenEncoderCache, loaded)
         /\ LET f0 == Frame([st EXCEPT !.encoder = tokenEncoderCache'], res.events, logged, "")
                f1 == writeSSE(f0, messageStartEventData)
                f2 == writeSSE(f1, [type |-> "ping"])
            IN /\ st' = f2.st
               /\ res' = [res EXCEPT !.headWrites = @ + 1, !.events = f2.events]
    /\ phase' = "Active"
    /\ UNCHANGED <<pulled, thrown, logged, clientConnected, pulledAtDisconnect, offStreamVars>>

\* the upstream stream yields a chunk: one iteration of the loop, and when it
\* breaks or throws, the rest of the handler (streaming.ts:79-299)
PullChunk ==
    /\ phase = "Active"
    /\ Len(pulled) < MaxFragments
    /\ \E chunk \in Chunks :
         /\ pulled' = Append(pulled, chunk)
         /\ LET f == ProcessChunk(CurrentFrame, chunk) IN
            IF f.thrown # "" \/ Breaks(chunk)
            THEN Commit(Epilogue(f), TRUE)
            ELSE Commit(f, FALSE)
    /\ UNCHANGED <<tokenEncoderCache, clientConnected, pulledAtDisconnect, offStreamVars>>

\* the upstream stream ends without a finish reason (streaming.ts:205-245, 272-299)
StreamExhausted ==
    /\ phase = "Active"
    /\ Commit(Epilogue(CurrentFrame), TRUE)
    /\ UNCHANGED <<tokenEncoderCache, pulled, clientConnected, pulledAtDisconnect, offStreamVars>>

\* the upstream iteration throws (streaming.ts:79, 247-299)
UpstreamFailure ==
    /\ phase = "Active"
    /\ \E message \in UpstreamErrorMessages :
         Commit(Epilogue(Throw(CurrentFrame, message)), TRUE)
    /\ UNCHANGED <<tokenEncoderCache, pulled, clientConnected, pulledAtDisconnect, offStreamVars>>

\* the downstream client goes away; the handler registers no listener for it
\* and reads no connection state (streaming.ts:15-300)
ClientDisconnect ==
    /\ phase = "Active"
    /\ clientConnected
    /\ clientConnected' = FALSE
    /\ pulledAtDisconnect' = Len(pulled)
    /\ UNCHANGED <<tokenEncoderCache, phase, st, res, pulled, thrown, logged, offStreamVars>>

StreamInit ==
    /\ tokenEncoderCache = "empty"
    /\ phase = "NotStarted"
    /\ st = InitialLocals
    /\ res = [headWrites |-> 0, events |-> <<>>, ends |-> 0]
    /\ pulled = <<>>
    /\ thrown = ""
    /\ logged = <<>>
    /\ clientConnected = TRUE
    /\ pulledAtDisconnect = NoIdx

\* no conversion is under way
ConvIdle ==
    /\ convIn = [messages |-> <<>>, system |-> [kind |-> "absent", text |-> "", blocks |-> <<>>],
                 logger |-> FALSE]
    /\ convOut = [messages |-> <<>>, warnings |-> <<>>]
    /\ convPc = "idle"

\* no completion is being translated
RespIdle ==
    /\ respIn = [completion |-> [id |-> "", choices |-> <<>>, usage |-> <<>>], logger |-> FALSE]
    /\ respOut = [id |-> "", content |-> <<>>, stop_reason |-> "null",
                  usage |-> [input_tokens |-> 0, output_tokens |-> 0], warnings |-> <<>>]
    /\ respPc = "idle"

\* no exception is being mapped
ErrIdle ==
    /\ errIn = [class |-> "Error", status |-> 0, message |-> "", body |-> [kind |-> "absent"]]
    /\ errOut = [errorType |-> "", errorMessage |-> "", statusCode |-> 0,
                 providerDetails |-> [kind |-> "undefined"]]
    /\ errPc = "idle"

\* no model is being selected
SelIdle ==
    /\ selIn = [clientModelName |-> <<>>, bigModelName |-> "", smallModelName |-> ""]
    /\ selOut = [targetModel |-> "", warnings |-> <<>>, debugs |-> <<>>]
    /\ selPc = "idle"

\* no request has been received
SrvIdle ==
    srv = [pc |-> "idle", request |-> [body |-> "valid", stream |-> FALSE, special |-> FALSE],
           backendCalls |-> 0, responses |-> <<>>, unhandled |-> FALSE]

\* no process with concurrent requests is under study
ProcIdle == proc = [cache |-> <<>>, built |-> 0, reqs |-> <<>>]

RestIdle == ErrIdle /\ SelIdle /\ SrvIdle /\ ProcIdle

Init == StreamInit /\ ConvIdle /\ RespIdle /\ RestIdle

Next == StartStream \/ PullChunk \/ StreamExhausted \/ UpstreamFailure

Spec == Init /\ [][Next]_vars

\* the streaming handler with a client that may go away
NextCancel == StartStream \/ PullChunk \/ StreamExhausted \/ UpstreamFailure \/ ClientDisconnect

SpecCancel == Init /\ [][NextCancel]_vars
----------------------------------------------------------------------------
(* The request translator, converter.ts *)

\* JavaScript values a message content takes: a string, or null
Str(text) == <<"string", text>>
Null == <<"null">>
Truthy(value) == value[1] = "string" /\ value[2] # ""

\* Array.prototype.join
RECURSIVE Join(_, _)
Join(strings, separator) ==
    IF strings = <<>> THEN ""
    ELSE IF Len(strings) = 1 THEN strings[1]
    ELSE strings[1] \o separator \o Join(Tail(strings), separator)

\* JSON.stringify of a string; the texts the model draws need no escape
JSONString(text) == "\"" \o text \o "\""

\* JSON.stringify of one part of openaiPartsForUserMessage
JSONPart(part) ==
    IF part.type = "text"
    THEN "{\"type\":\"text\",\"text\":" \o JSONString(part.text) \o "}"
    ELSE "{\"type\":\"image_url\",\"image_url\":{\"url\":" \o JSONString(part.url) \o "}}"

\* JSON.stringify(openaiPartsForUserMessage) (converter.ts:190)
JSONParts(parts) == "[" \o Join([i \in 1..Len(parts) |-> JSONPart(parts[i])], ",") \o "]"

\* the inputs of a tool_use block: objects as sequences of <<key, string value>>
\* pairs, and an object JSON.stringify throws on (a circular one)
CircularInput == <<<<"self", "[Circular]">>>>
ToolInputs == {<<>>, <<<<"city", "Paris">>>>, CircularInput}

\* JSON.stringify(block.input) when it does not throw (converter.ts:140)
JSONObject(input) ==
    "{" \o Join([i \in 1..Len(input) |->
                    JSONString(input[i][1]) \o ":" \o JSONString(input[i][2])], ",") \o "}"

\* ToolCallArguments with String(block.input) in place of JSON.stringify
ToolCallArguments_ToString(input) == "[object Object]"

\* the try/catch around JSON.stringify(block.input) (converter.ts:139-164)
ToolCallArguments(input) == IF input = CircularInput THEN "{}" ELSE JSONObject(input)

\* the items of an array content: objects are records with a type field (and
\* a text field or none), other JSON values and the value JSON.stringify
\* throws on are records with a json field
StringItem(value) == [json |-> "string", value |-> value]
NumberItem(digits) == [json |-> "number", value |-> digits]
CircularItem == [json |-> "circular", value |-> ""]

\* JSON.stringify(item) when it does not throw (converter.ts:267)
JSONItem(item) ==
    IF "json" \in DOMAIN item
    THEN IF item.json = "string" THEN JSONString(item.value) ELSE item.value
    ELSE "{\"type\":" \o JSONString(item.type)
         \o (IF "text" \in DOMAIN item THEN ",\"text\":" \o JSONString(item.text) ELSE "")
         \o "}"

\* typeof item === 'object' && ... item.type === 'text' && 'text' in item
\* (converter.ts:263)
IsTextItem(item) ==
    "type" \in DOMAIN item /\ item.type = "text" /\ "text" \in DOMAIN item

\* serializeToolResultContentForOpenAI: one item of an array content
\* (converter.ts:262-273)
SerializeItem(item) ==
    IF IsTextItem(item) THEN item.text
    ELSE IF "json" \in DOMAIN item /\ item.json = "circular"
    THEN "<unserializable_item type='object'>"
    ELSE JSONItem(item)

\* serializeToolResultContentForOpenAI with the parts joined by nothing
serializeToolResultContentForOpenAI_Concatenates(content) ==
    IF content.kind = "string" THEN content.text
    ELSE Join([i \in 1..Len(content.items) |-> SerializeItem(content.items[i])], "")

\* serializeToolResultContentForOpenAI (converter.ts:248-304)
serializeToolResultContentForOpenAI(content) ==
    IF content.kind = "string" THEN content.text
    ELSE Join([i \in 1..Len(content.items) |-> SerializeItem(content.items[i])], "\n")

\* the content blocks the model draws from
TextBlock(text) == [type |-> "text", text |-> text]
ImageBlock(source_type) ==
    [type |-> "image", source_type |-> source_type, media_type |-> "image/png", data |-> "AAAA"]
ToolUseBlock(id, name, input) == [type |-> "tool_use", id |-> id, name |-> name, input |-> input]
ToolResultBlock(tool_use_id, content) ==
    [type |-> "tool_result", tool_use_id |-> tool_use_id, content |-> content]

StringContent(text) == [kind |-> "string", text |-> text]
ArrayContent(items) == [kind |-> "array", items |-> items]

Blocks ==
    {TextBlock(text) : text \in {"", "Hello", "World"}}
    \cup {ImageBlock("base64"), ImageBlock("url")}
    \cup {ToolUseBlock("toolu_1", "get_weather", <<<<"city", "Paris">>>>),
          ToolUseBlock("toolu_2", "get_time", <<>>),
          ToolUseBlock("toolu_3", "lookup", CircularInput)}
    \cup {ToolResultBlock("toolu_1", StringContent("sunny")),
          ToolResultBlock("toolu_2", ArrayContent(<<[type |-> "text", text |-> "12:00"],
                                                     [type |-> "image"]>>))}

\* a source message: content is a string (kind "string") or an array of blocks
StringMessage(role, text) == [role |-> role, kind |-> "string", text |-> text, blocks |-> <<>>]
ArrayMessage(role, blocks) == [role |-> role, kind |-> "array", text |-> "", blocks |-> blocks]

\* the sequences over a set of length at most n
RECURSIVE SeqsUpTo(_, _)
SeqsUpTo(S, n) ==
    IF n = 0 THEN {<<>>}
    ELSE LET shorter == SeqsUpTo(S, n - 1) IN
         shorter \cup {Append(q, x) : q \in {r \in shorter : Len(r) = n - 1}, x \in S}

\* the message under conversion: any role, at most MaxBlocks blocks
MainMessages ==
    {ArrayMessage(role, blocks) : role \in {"user", "assistant"}, blocks \in SeqsUpTo(Blocks, MaxBlocks)}
    \cup {StringMessage(role, text) : role \in {"user", "assistant"}, text \in {"", "Hello"}}

\* what precedes it in the conversation: nothing, or one message
LeadingMessages ==
    {<<>>,
     <<StringMessage("assistant", "")>>,
     <<StringMessage("assistant", "Earlier")>>,
     <<StringMessage("user", "Question")>>,
     <<ArrayMessage("assistant", <<ToolUseBlock("toolu_0", "search", <<>>)>>)>>}

\* the system prompt: absent, a string, or an array with a non-text block
SystemPrompts ==
    {[kind |-> "absent", text |-> "", blocks |-> <<>>],
     [kind |-> "array", text |-> "", blocks |-> <<TextBlock("Be"), ImageBlock("base64"), TextBlock("brief")>>]}

UserMessage(content) == [role |-> "user", content |-> content, tool_calls |-> <<>>]
AssistantMessage(content, tool_calls) ==
    [role |-> "assistant", content |-> content, tool_calls |-> tool_calls]
ToolMessage(tool_call_id, content) ==
    [role |-> "tool", tool_call_id |-> tool_call_id, content |-> content, tool_calls |-> <<>>]

\* the accumulators of one source message (converter.ts:91-93), with the
\* output list and the warnings logged
ConvState(openaiMessages, warnings) ==
    [openaiMessages |-> openaiMessages,
     openaiPartsForUserMessage |-> <<>>,
     assistantToolCalls |-> <<>>,
     textContentForAssistant |-> <<>>,
     warnings |-> warnings]

\* the switch over block.type (converter.ts:108-183)
ConvertBlock(c, role, block, logger) ==
    CASE block.type = "text" ->
           IF role = "user"
           THEN [c EXCEPT !.openaiPartsForUserMessage = Append(@, [type |-> "text", text |-> block.text])]
           ELSE [c EXCEPT !.textContentForAssistant = Append(@, block.text)]
      [] block.type = "image" ->
           IF role # "user" THEN c
           ELSE IF block.source_type = "base64"
           THEN [c EXCEPT !.openaiPartsForUserMessage =
                    Append(@, [type |-> "image_url",
                               url |-> "data:" \o block.media_type \o ";base64," \o block.data])]
           ELSE IF logger THEN [c EXCEPT !.warnings = Append(@, "IMAGE_FORMAT_UNSUPPORTED")]
           ELSE c
      [] block.type = "tool_use" ->
           IF role # "assistant" THEN c
           ELSE LET c1 == IF block.input = CircularInput /\ logger
                          THEN [c EXCEPT !.warnings = Append(@, "TOOL_INPUT_SERIALIZATION_FAILURE")]
                          ELSE c
                IN [c1 EXCEPT !.assistantToolCalls =
                       Append(@, [id |-> block.id, type |-> "function",
                                  function |-> [name |-> block.name,
                                                arguments |-> ToolCallArguments(block.input)]])]
      [] block.type = "tool_result" ->
           IF role # "user" THEN c
           ELSE LET c1 == IF /\ logger
                             /\ block.content.kind = "array"
                             /\ \E i \in 1..Len(block.content.items) : ~IsTextItem(block.content.items[i])
                          THEN [c EXCEPT !.warnings = Append(@, "TOOL_RESULT_PROCESSING")]
                          ELSE c
                IN [c1 EXCEPT !.openaiMessages =
                       Append(@, ToolMessage(block.tool_use_id,
                                             Str(serializeToolResultContentForOpenAI(block.content))))]

\* for (let blockIdx ...) (converter.ts:100-184)
RECURSIVE ConvertBlocks(_, _, _, _)
ConvertBlocks(c, role, blocks, logger) ==
    IF blocks = <<>> THEN c
    ELSE ConvertBlocks(ConvertBlock(c, role, Head(blocks), logger), role, Tail(blocks), logger)

\* FlushUserParts collapsing parts that are all text into their joined text
FlushUserParts_JoinsText(c) ==
    LET parts == c.openaiPartsForUserMessage IN
    IF Len(parts) > 0
    THEN IF \E i \in 1..Len(parts) : parts[i].type = "image_url"
         THEN [c EXCEPT !.openaiMessages = Append(@, UserMessage(Str(JSONParts(parts))))]
         ELSE [c EXCEPT !.openaiMessages =
                  Append(@, UserMessage(Str(Join([i \in 1..Len(parts) |-> parts[i].text], "\n"))))]
    ELSE [c EXCEPT !.openaiMessages = Append(@, UserMessage(Str("")))]

\* Handle user message parts (converter.ts:186-196)
FlushUserParts(c) ==
    LET parts == c.openaiPartsForUserMessage IN
    IF Len(parts) > 0
    THEN IF (\E i \in 1..Len(parts) : parts[i].type = "image_url") \/ Len(parts) > 1
         THEN [c EXCEPT !.openaiMessages = Append(@, UserMessage(Str(JSONParts(parts))))]
         ELSE IF Len(parts) = 1 /\ parts[1].type = "text"
         THEN [c EXCEPT !.openaiMessages = Append(@, UserMessage(Str(parts[1].text)))]
         ELSE c
    ELSE [c EXCEPT !.openaiMessages = Append(@, UserMessage(Str("")))]

\* AttachToolCalls with the merge branch leaving the content it found
AttachToolCalls_KeepsContent(openaiMessages, assistantToolCalls) ==
    LET n == Len(openaiMessages)
        lastIsPlainAssistant ==
            /\ n > 0
            /\ openaiMessages[n].role = "assistant"
            /\ openaiMessages[n].tool_calls = <<>>
    IN IF lastIsPlainAssistant /\ Truthy(openaiMessages[n].content)
       THEN Append(openaiMessages, AssistantMessage(Null, assistantToolCalls))
       ELSE IF lastIsPlainAssistant
       THEN [openaiMessages EXCEPT ![n].tool_calls = assistantToolCalls]
       ELSE Append(openaiMessages, AssistantMessage(Null, assistantToolCalls))

\* where the tool calls of an assistant message go (converter.ts:205-226)
AttachToolCalls(openaiMessages, assistantToolCalls) ==
    LET n == Len(openaiMessages)
        lastIsPlainAssistant ==
            /\ n > 0
            /\ openaiMessages[n].role = "assistant"
            /\ openaiMessages[n].tool_calls = <<>>
    IN IF lastIsPlainAssistant /\ Truthy(openaiMessages[n].content)
       THEN Append(openaiMessages, AssistantMessage(Null, assistantToolCalls))
       ELSE IF lastIsPlainAssistant
       THEN [openaiMessages EXCEPT ![n] = AssistantMessage(Null, assistantToolCalls)]
       ELSE Append(openaiMessages, AssistantMessage(Null, assistantToolCalls))

\* FlushAssistant attaching the tool calls before it pushes the text
FlushAssistant_ToolCallsFirst(c) ==
    LET assistantText == Join(SelectSeq(c.textContentForAssistant, LAMBDA t : t # ""), "\n")
        c1 == IF Len(c.assistantToolCalls) > 0
              THEN [c EXCEPT !.openaiMessages = AttachToolCalls(@, c.assistantToolCalls)]
              ELSE c
    IN IF assistantText # ""
       THEN [c1 EXCEPT !.openaiMessages = Append(@, AssistantMessage(Str(assistantText), <<>>))]
       ELSE c1

\* Handle assistant messages (converter.ts:198-227)
FlushAssistant(c) ==
    LET assistantText == Join(SelectSeq(c.textContentForAssistant, LAMBDA t : t # ""), "\n")
        c1 == IF assistantText # ""
              THEN [c EXCEPT !.openaiMessages = Append(@, AssistantMessage(Str(assistantText), <<>>))]
              ELSE c
    IN IF Len(c1.assistantToolCalls) > 0
       THEN [c1 EXCEPT !.openaiMessages = AttachToolCalls(@, c1.assistantToolCalls)]
       ELSE c1

\* one iteration of the loop over anthropicMessages (converter.ts:81-229)
ConvertMessage(acc, msg, logger) ==
    IF msg.kind = "string"
    THEN [acc EXCEPT !.openaiMessages =
             Append(@, [role |-> msg.role, content |-> Str(msg.text), tool_calls |-> <<>>])]
    ELSE IF msg.blocks = <<>>
    THEN [acc EXCEPT !.openaiMessages =
             Append(@, [role |-> msg.role, content |-> Str(""), tool_calls |-> <<>>])]
    ELSE LET c == ConvertBlocks(ConvState(acc.openaiMessages, acc.warnings),
                                msg.role, msg.blocks, logger)
         IN IF msg.role = "user" THEN FlushUserParts(c) ELSE FlushAssistant(c)

RECURSIVE ConvertMessages(_, _, _)
ConvertMessages(acc, anthropicMessages, logger) ==
    IF anthropicMessages = <<>> THEN acc
    ELSE ConvertMessages(ConvertMessage(acc, Head(anthropicMessages), logger),
                         Tail(anthropicMessages), logger)

\* Handle system prompt (converter.ts:57-78)
ConvertSystem(anthropicSystem, logger) ==
    LET systemTexts == SelectSeq(anthropicSystem.blocks, LAMBDA b : b.type = "text")
        systemTextContent ==
            IF anthropicSystem.kind = "string" THEN anthropicSystem.text
            ELSE IF anthropicSystem.kind = "array"
            THEN Join([i \in 1..Len(systemTexts) |-> systemTexts[i].text], "\n")
            ELSE ""
        warnings ==
            IF /\ anthropicSystem.kind = "array"
               /\ Len(systemTexts) < Len(anthropicSystem.blocks)
               /\ logger
            THEN <<"SYSTEM_PROMPT_ADJUSTED">>
            ELSE <<>>
    IN ConvState(IF systemTextContent # ""
                 THEN <<[role |-> "system", content |-> Str(systemTextContent), tool_calls |-> <<>>]>>
                 ELSE <<>>,
                 warnings)

\* Normalize messages with tool_calls (converter.ts:231-243)
Normalize(msg, logger) ==
    IF msg.role = "assistant" /\ msg.tool_calls # <<>> /\ msg.content # Null /\ logger
    THEN [msg EXCEPT !.content = Null]
    ELSE msg

\* convertAnthropicToOpenAIMessages (converter.ts:49-246)
convertAnthropicToOpenAIMessages(anthropicMessages, anthropicSystem, logger) ==
    LET acc == ConvertMessages(ConvertSystem(anthropicSystem, logger), anthropicMessages, logger)
    IN [messages |-> [i \in 1..Len(acc.openaiMessages) |-> Normalize(acc.openaiMessages[i], logger)],
        warnings |-> acc.warnings]

----------------------------------------------------------------------------
(* Actions of the request translator *)

\* the call of convertAnthropicToOpenAIMessages (server.ts calls it once per request)
Convert ==
    /\ convPc = "idle"
    /\ convOut' = convertAnthropicToOpenAIMessages(convIn.messages, convIn.system, convIn.logger)
    /\ convPc' = "done"
    /\ UNCHANGED <<convIn, streamVars, respVars, errVars, selVars, srv, proc>>

\* any request of the bounded shape: an optional leading message, then the
\* message under conversion
ConvInit ==
    /\ StreamInit
    /\ \E lead \in LeadingMessages, main \in MainMessages, system \in SystemPrompts,
          logger \in BOOLEAN :
         convIn = [messages |-> lead \o <<main>>, system |-> system, logger |-> logger]
    /\ convOut = [messages |-> <<>>, warnings |-> <<>>]
    /\ convPc = "idle"
    /\ RespIdle
    /\ RestIdle

ConvNext == Convert

\* the contents of a tool_result block: strings, and arrays of JSON values
ToolResultContents ==
    {StringContent("sunny"), StringContent(""), ArrayContent(<<>>),
     ArrayContent(<<[type |-> "text", text |-> "12:00"], [type |-> "image"]>>),
     ArrayContent(<<[type |-> "text", text |-> "a"], [type |-> "text", text |-> ""],
                    [type |-> "text", text |-> "b"]>>),
     ArrayContent(<<StringItem("raw"), NumberItem("7"), [type |-> "text"]>>),
     ArrayContent(<<CircularItem>>)}

ToolResultBlocks ==
    {ToolResultBlock("toolu_1", content) : content \in ToolResultContents}
    \cup {ToolResultBlock("toolu_2", StringContent("sunny")), TextBlock("Hello")}

\* requests whose last message holds tool_result blocks of every content
ToolResultInit ==
    /\ StreamInit
    /\ \E lead \in {<<>>, <<ArrayMessage("user", <<ToolResultBlock("toolu_0", StringContent("found"))>>)>>},
          role \in {"user", "assistant"},
          blocks \in SeqsUpTo(ToolResultBlocks, MaxBlocks),
          logger \in BOOLEAN :
         convIn = [messages |-> lead \o <<ArrayMessage(role, blocks)>>,
                   system |-> [kind |-> "absent", text |-> "", blocks |-> <<>>],
                   logger |-> logger]
    /\ convOut = [messages |-> <<>>, warnings |-> <<>>]
    /\ convPc = "idle"
    /\ RespIdle
    /\ RestIdle

SpecToolResult == ToolResultInit /\ [][ConvNext]_vars

SpecConv == ConvInit /\ [][ConvNext]_vars

----------------------------------------------------------------------------
(* The response translator, converter.ts *)

\* the values JSON.parse returns: an object is its <<key, string value>>
\* pairs, any other value keeps its text
ObjectValue(pairs) == [json |-> "object", pairs |-> pairs]
ScalarValue(kind, text) == [json |-> kind, value |-> text]
SyntaxError == [json |-> "SyntaxError", value |-> ""]

\* JSON.parse(call.function.arguments) (converter.ts:394) on the arguments
\* strings of the model; every other string is no JSON text
JSONParse(text) ==
    CASE text = "{}" -> ObjectValue(<<>>)
      [] text = "{\"city\":\"Paris\"}" -> ObjectValue(<<<<"city", "Paris">>>>)
      [] text = "[1,2]" -> ScalarValue("array", "[1,2]")
      [] text = "42" -> ScalarValue("number", "42")
      [] text = "\"text\"" -> ScalarValue("string", "text")
      [] text = "null" -> ScalarValue("null", "null")
      [] OTHER -> SyntaxError

\* typeof parsedInput === 'object' && parsedInput !== null (converter.ts:395)
IsNonNullObjectType(parsedInput) == parsedInput.json \in {"object", "array"}

\* { value: parsedInput } and { error_parsing_arguments: ... }
\* (converter.ts:398, 424)
WrappedValue(parsedInput) == [json |-> "object", wrapped |-> parsedInput]
ErrorParsingArguments(arguments) == [json |-> "object", error_parsing_arguments |-> arguments]

\* the try/catch that computes toolInputDict (converter.ts:392-425)
toolInputDict(arguments) ==
    LET parsedInput == JSONParse(arguments) IN
    IF parsedInput = SyntaxError THEN ErrorParsingArguments(arguments)
    ELSE IF IsNonNullObjectType(parsedInput) THEN parsedInput
    ELSE WrappedValue(parsedInput)

\* the warning or error logged for a call (converter.ts:399-422)
ToolArgsLog(arguments) ==
    LET parsedInput == JSONParse(arguments) IN
    IF parsedInput = SyntaxError THEN <<"TOOL_ARGS_PARSE_FAILURE">>
    ELSE IF IsNonNullObjectType(parsedInput) THEN <<>>
    ELSE <<"TOOL_ARGS_TYPE_MISMATCH">>

\* stopReasonMap (converter.ts:369-375)
stopReasonMap ==
    [stop |-> "end_turn", length |-> "max_tokens", tool_calls |-> "tool_use",
     function_call |-> "tool_use", content_filter |-> "stop_sequence"]

\* stopReasonMap[finishReason || ''] || 'end_turn' (converter.ts:382); the
\* object literal inherits the properties of Object.prototype
ResponseStopReasonLookup(finishReason) ==
    IF finishReason \in DOMAIN stopReasonMap THEN stopReasonMap[finishReason]
    ELSE IF finishReason \in ObjectPrototypeKeys THEN InheritedFunction
    ELSE "end_turn"

\* ConvertToolCalls skipping a call whose arguments do not parse
RECURSIVE ConvertToolCalls_DropsUnparsable(_, _)
ConvertToolCalls_DropsUnparsable(tool_calls, logger) ==
    IF tool_calls = <<>> THEN [content |-> <<>>, warnings |-> <<>>]
    ELSE LET call == Head(tool_calls)
             rest == ConvertToolCalls_DropsUnparsable(Tail(tool_calls), logger)
         IN IF call.type = "function" /\ JSONParse(call.function.arguments) # SyntaxError
            THEN [content |-> <<[type |-> "tool_use", id |-> call.id, name |-> call.function.name,
                                 input |-> toolInputDict(call.function.arguments)]>>
                              \o rest.content,
                  warnings |-> (IF logger THEN ToolArgsLog(call.function.arguments) ELSE <<>>)
                               \o rest.warnings]
            ELSE rest

\* for (const call of message.tool_calls) (converter.ts:391-435): the blocks
\* pushed and the records logged
RECURSIVE ConvertToolCalls(_, _)
ConvertToolCalls(tool_calls, logger) ==
    IF tool_calls = <<>> THEN [content |-> <<>>, warnings |-> <<>>]
    ELSE LET call == Head(tool_calls)
             rest == ConvertToolCalls(Tail(tool_calls), logger)
         IN IF call.type = "function"
            THEN [content |-> <<[type |-> "tool_use", id |-> call.id, name |-> call.function.name,
                                 input |-> toolInputDict(call.function.arguments)]>>
                              \o rest.content,
                  warnings |-> (IF logger THEN ToolArgsLog(call.function.arguments) ELSE <<>>)
                               \o rest.warnings]
            ELSE rest

\* the part of convertOpenAIToAnthropicResponse that reads choices[0]
\* (converter.ts:377-440)
ConvertChoice(choice, logger) ==
    LET message == choice.message
        text == IF Truthy(message.content)
                THEN <<[type |-> "text", text |-> message.content[2]]>>
                ELSE <<>>
        calls == IF message.has_tool_calls
                 THEN ConvertToolCalls(message.tool_calls, logger)
                 ELSE [content |-> <<>>, warnings |-> <<>>]
    IN [content |-> text \o calls.content,
        stop_reason |-> IF message.has_tool_calls /\ choice.finish_reason = "tool_calls"
                        THEN "tool_use"
                        ELSE ResponseStopReasonLookup(choice.finish_reason),
        warnings |-> calls.warnings]

\* convertOpenAIToAnthropicResponse (converter.ts:360-469)
convertOpenAIToAnthropicResponse(openaiResponse, logger) ==
    LET first == IF Len(openaiResponse.choices) > 0
                 THEN ConvertChoice(openaiResponse.choices[1], logger)
                 ELSE [content |-> <<>>, stop_reason |-> "null", warnings |-> <<>>]
        usage == openaiResponse.usage
    IN [id |-> IF openaiResponse.id # "" THEN "msg_" \o openaiResponse.id
               ELSE "msg_" \o requestId \o "_completed",
        content |-> IF Len(first.content) = 0
                    THEN <<[type |-> "text", text |-> ""]>>
                    ELSE first.content,
        stop_reason |-> first.stop_reason,
        usage |-> [input_tokens |-> IF usage = <<>> THEN 0 ELSE usage[1],
                   output_tokens |-> IF usage = <<>> THEN 0 ELSE usage[2]],
        warnings |-> first.warnings]

\* the completions the model draws from
ToolCall(id, type, name, arguments) ==
    [id |-> id, type |-> type, function |-> [name |-> name, arguments |-> arguments]]

CompletionToolCalls ==
    {ToolCall("call_1", "function", "get_weather", "{\"city\":\"Paris\"}"),
     ToolCall("call_2", "function", "get_time", "{}"),
     ToolCall("call_3", "function", "pick", "[1,2]"),
     ToolCall("call_4", "function", "pick", "42"),
     ToolCall("call_5", "function", "pick", "\"text\""),
     ToolCall("call_6", "function", "pick", "null"),
     ToolCall("call_7", "function", "pick", "{\"city\":"),
     ToolCall("call_8", "custom", "pick", "{}")}

ChoiceMessage(content, has_tool_calls, tool_calls) ==
    [content |-> content, has_tool_calls |-> has_tool_calls, tool_calls |-> tool_calls]

Choice(message, finish_reason) == [message |-> message, finish_reason |-> finish_reason]

\* message.tool_calls: absent, or an array
ChoiceMessages ==
    {ChoiceMessage(content, TRUE, tool_calls) :
        content \in {Null, Str(""), Str("Hi")},
        tool_calls \in SeqsUpTo(CompletionToolCalls, MaxBlocks)}
    \cup {ChoiceMessage(content, FALSE, <<>>) : content \in {Null, Str(""), Str("Hi")}}

\* finish_reason: a value of the table, another string, or none ("")
CompletionFinishReasons == FinishReasons \cup {""}

\* a choice after the first
SecondChoice ==
    Choice(ChoiceMessage(Str("Other"), TRUE, <<ToolCall("call_9", "function", "other", "{}")>>),
           "length")

Completions ==
    {[id |-> envelope[1], usage |-> envelope[2], choices |-> <<Choice(message, finish_reason)>> \o more] :
        envelope \in {<<"chatcmpl-1", <<5, 3>>>>, <<"", <<>>>>},
        message \in ChoiceMessages,
        finish_reason \in CompletionFinishReasons,
        more \in {<<>>, <<SecondChoice>>}}
    \cup {[id |-> "chatcmpl-1", usage |-> <<5, 3>>, choices |-> <<>>]}

----------------------------------------------------------------------------
(* Actions of the response translator *)

\* the call of convertOpenAIToAnthropicResponse on the completion received
TranslateResponse ==
    /\ respPc = "ready"
    /\ respOut' = convertOpenAIToAnthropicResponse(respIn.completion, respIn.logger)
    /\ respPc' = "done"
    /\ UNCHANGED <<respIn, streamVars, convVars, errVars, selVars, srv, proc>>

\* any completion of the bounded shape has been received
RespInit ==
    /\ StreamInit
    /\ ConvIdle
    /\ \E completion \in Completions :
         respIn = [completion |-> completion, logger |-> completion.id # ""]
    /\ respOut = [id |-> "", content |-> <<>>, stop_reason |-> "null",
                  usage |-> [input_tokens |-> 0, output_tokens |-> 0], warnings |-> <<>>]
    /\ respPc = "ready"
    /\ RestIdle

RespNext == TranslateResponse

SpecResp == RespInit /\ [][RespNext]_vars

\* the backend answers with the tool calls the request's last message carried
ReturnToolCalls ==
    /\ convPc = "done"
    /\ respPc = "idle"
    /\ Len(convOut.messages) > 0
    /\ LET last == convOut.messages[Len(convOut.messages)] IN
       /\ last.role = "assistant"
       /\ last.tool_calls # <<>>
       /\ respIn' = [completion |->
                        [id |-> "chatcmpl-1", usage |-> <<5, 3>>,
                         choices |-> <<Choice(ChoiceMessage(Null, TRUE, last.tool_calls),
                                              "tool_calls")>>],
                     logger |-> convIn.logger]
    /\ respPc' = "ready"
    /\ UNCHANGED <<respOut, streamVars, convVars, errVars, selVars, srv, proc>>

\* the tool_use blocks of assistant messages
ToolUseBlocks ==
    {ToolUseBlock("toolu_1", "get_weather", <<<<"city", "Paris">>>>),
     ToolUseBlock("toolu_2", "get_time", <<>>),
     ToolUseBlock("toolu_3", "lookup", CircularInput),
     ToolUseBlock("toolu_4", "get_weather", <<>>),
     TextBlock("Hello")}

\* requests whose last message is an assistant message with tool_use blocks
RoundTripInit ==
    /\ StreamInit
    /\ \E lead \in LeadingMessages, blocks \in SeqsUpTo(ToolUseBlocks, MaxBlocks),
          logger \in BOOLEAN :
         convIn = [messages |-> lead \o <<ArrayMessage("assistant", blocks)>>,
                   system |-> [kind |-> "absent", text |-> "", blocks |-> <<>>],
                   logger |-> logger]
    /\ convOut = [messages |-> <<>>, warnings |-> <<>>]
    /\ convPc = "idle"
    /\ RespIdle
    /\ RestIdle

RoundTripNext == Convert \/ ReturnToolCalls \/ TranslateResponse

SpecRoundTrip == RoundTripInit /\ [][RoundTripNext]_vars

----------------------------------------------------------------------------
(* The error mapper, errors.ts *)

\* the classes of the exceptions: Error, APIError of the openai package and
\* its subclasses
APIErrorClasses ==
    {"APIError", "AuthenticationError", "RateLimitError", "BadRequestError",
     "PermissionDeniedError", "NotFoundError", "InternalServerError", "ConflictError"}
ErrorClasses == APIErrorClasses \cup {"Error"}

\* exc.status: 0 stands for a missing status
Statuses == {0, 400, 401, 403, 404, 409, 413, 422, 429, 500, 502, 503, 504}

\* STATUS_CODE_ERROR_MAP (types.ts:238-250)
STATUS_CODE_ERROR_MAP ==
    [statusCode \in {400, 401, 403, 404, 413, 422, 429, 500, 502, 503, 504} |->
        CASE statusCode = 400 -> "invalid_request_error"
          [] statusCode = 401 -> "authentication_error"
          [] statusCode = 403 -> "permission_error"
          [] statusCode = 404 -> "not_found_error"
          [] statusCode = 413 -> "request_too_large_error"
          [] statusCode = 422 -> "invalid_request_error"
          [] statusCode = 429 -> "rate_limit_error"
          [] statusCode = 500 -> "api_error"
          [] statusCode = 502 -> "api_error"
          [] statusCode = 503 -> "overloaded_error"
          [] statusCode = 504 -> "api_error"]

\* STATUS_CODE_ERROR_MAP[statusCode] || AnthropicErrorType.API_ERROR
\* (errors.ts:63)
StatusErrorType(statusCode) ==
    IF statusCode \in DOMAIN STATUS_CODE_ERROR_MAP THEN STATUS_CODE_ERROR_MAP[statusCode]
    ELSE "api_error"

\* the instanceof chain without its effect
SpecificErrorType_Ignored(class, errorType) == errorType

\* More specific error type mapping (errors.ts:72-85)
SpecificErrorType(class, errorType) ==
    CASE class = "AuthenticationError" -> "authentication_error"
      [] class = "RateLimitError" -> "rate_limit_error"
      [] class = "BadRequestError" -> "invalid_request_error"
      [] class = "PermissionDeniedError" -> "permission_error"
      [] class = "NotFoundError" -> "not_found_error"
      [] class = "InternalServerError" -> "api_error"
      [] OTHER -> errorType

\* JavaScript values of the error body: kind is the typeof class, value the
\* text of a string or number
Absent == [kind |-> "absent"]
NonObject(kind, value) == [kind |-> kind, value |-> value]
Metadata(provider_name, raw) ==
    [kind |-> "object", provider_name |-> provider_name, raw |-> raw]
ErrorDetails(metadata) == [kind |-> "object", metadata |-> metadata]
ErrorBody(error, metadata) == [kind |-> "object", error |-> error, metadata |-> metadata]

\* JSON.parse(rawErrorStr) (errors.ts:33) on the raw strings of the model
JSONParseRaw(text) ==
    CASE text = "{\"error\":{\"message\":\"quota\"}}" -> [kind |-> "parsed", json |-> "object", value |-> text]
      [] text = "42" -> [kind |-> "parsed", json |-> "number", value |-> text]
      [] OTHER -> [kind |-> "SyntaxError"]

\* ParseRawError discarding a string that is no JSON
ParseRawError_DiscardsUnparsable(rawErrorStr) ==
    IF rawErrorStr.kind = "string"
    THEN IF JSONParseRaw(rawErrorStr.value).kind = "SyntaxError"
         THEN [kind |-> "undefined"]
         ELSE JSONParseRaw(rawErrorStr.value)
    ELSE IF rawErrorStr.kind = "object" THEN [kind |-> "object", value |-> rawErrorStr.value]
    ELSE [kind |-> "undefined"]

\* parsedRawError (errors.ts:30-39)
ParseRawError(rawErrorStr) ==
    IF rawErrorStr.kind = "string"
    THEN IF JSONParseRaw(rawErrorStr.value).kind = "SyntaxError"
         THEN [kind |-> "raw_string_parse_failed", value |-> rawErrorStr.value]
         ELSE JSONParseRaw(rawErrorStr.value)
    ELSE IF rawErrorStr.kind = "object" THEN [kind |-> "object", value |-> rawErrorStr.value]
    ELSE [kind |-> "undefined"]

\* extractProviderErrorDetails (errors.ts:14-46)
extractProviderErrorDetails(errorDetails) ==
    IF errorDetails.kind # "object" THEN [kind |-> "undefined"]
    ELSE LET metadata == errorDetails.metadata IN
         IF metadata.kind # "object" THEN [kind |-> "undefined"]
         ELSE IF metadata.provider_name.kind # "string" \/ metadata.provider_name.value = ""
         THEN [kind |-> "undefined"]
         ELSE [kind |-> "details",
               provider_name |-> metadata.provider_name.value,
               raw_error |-> ParseRawError(metadata.raw)]

\* (exc.body as any).error || exc.body (errors.ts:67): error is falsy when
\* absent
actualErrorDetails(body) ==
    IF body.error.kind = "absent" THEN ErrorDetails(body.metadata) ELSE body.error

\* exc.message || String(exc) (errors.ts:58); every class of the model has
\* the name Error
errorMessage(exc) == IF exc.message # "" THEN exc.message ELSE "Error"

\* getAnthropicErrorDetailsFromException (errors.ts:48-89)
getAnthropicErrorDetailsFromException(exc) ==
    LET isAPIError == exc.class \in APIErrorClasses
        statusCode == IF isAPIError /\ exc.status # 0 THEN exc.status ELSE 500
        errorType == IF isAPIError THEN StatusErrorType(statusCode) ELSE "api_error"
    IN [errorType |-> SpecificErrorType(exc.class, errorType),
        errorMessage |-> errorMessage(exc),
        statusCode |-> statusCode,
        providerDetails |->
            IF isAPIError /\ exc.body.kind = "object"
            THEN extractProviderErrorDetails(actualErrorDetails(exc.body))
            ELSE [kind |-> "undefined"]]

\* the bodies the model draws from
ProviderNames == {Absent, NonObject("number", "7"), NonObject("string", ""),
                  NonObject("string", "openai")}
RawPayloads ==
    {Absent, NonObject("number", "7"), NonObject("object", "{error:{message:'quota'}}"),
     NonObject("string", "{\"error\":{\"message\":\"quota\"}}"), NonObject("string", "42"),
     NonObject("string", "upstream said no")}
Metadatas ==
    {Absent, NonObject("string", "meta")}
    \cup {Metadata(provider_name, Absent) : provider_name \in ProviderNames}
    \cup {Metadata(NonObject("string", "openai"), raw) : raw \in RawPayloads}
ErrorBodies ==
    {Absent, NonObject("string", "Bad gateway"), NonObject("null", "null")}
    \cup {ErrorBody(Absent, metadata) : metadata \in Metadatas}
    \cup {ErrorBody(ErrorDetails(metadata), Absent) : metadata \in Metadatas}
    \cup {ErrorBody(NonObject("string", "failed"), Absent)}

Exceptions ==
    {[class |-> class, status |-> status, message |-> message, body |-> body] :
        class \in ErrorClasses, status \in Statuses, message \in {"", "boom"},
        body \in ErrorBodies}

----------------------------------------------------------------------------
(* Actions of the error mapper *)

\* the call of getAnthropicErrorDetailsFromException on the exception caught
MapError ==
    /\ errPc = "ready"
    /\ errOut' = getAnthropicErrorDetailsFromException(errIn)
    /\ errPc' = "done"
    /\ UNCHANGED <<errIn, streamVars, convVars, respVars, selVars, srv, proc>>

\* any exception of the model has been caught
ErrInit ==
    /\ StreamInit
    /\ ConvIdle
    /\ RespIdle
    /\ SelIdle
    /\ SrvIdle
    /\ ProcIdle
    /\ errIn \in Exceptions
    /\ errOut = [errorType |-> "", errorMessage |-> "", statusCode |-> 0,
                 providerDetails |-> [kind |-> "undefined"]]
    /\ errPc = "ready"

ErrNext == MapError

SpecErr == ErrInit /\ [][ErrNext]_vars

----------------------------------------------------------------------------
(* Model selection, converter.ts *)

\* a model name is the sequence of its characters, so that toLowerCase and
\* includes are computed
UpperCaseLetters ==
    [A |-> "a", E |-> "e", H |-> "h", I |-> "i", K |-> "k", N |-> "n", O |-> "o",
     P |-> "p", S |-> "s", T |-> "t", U |-> "u"]

\* toLowerCase leaving the name as it is
toLowerCase_Unchanged(name) == name

\* String.prototype.toLowerCase (converter.ts:19)
toLowerCase(name) ==
    [i \in 1..Len(name) |->
        IF name[i] \in DOMAIN UpperCaseLetters THEN UpperCaseLetters[name[i]] ELSE name[i]]

\* String.prototype.includes (converter.ts:22, 24)
includes(name, searchString) ==
    \E i \in 1..(Len(name) - Len(searchString) + 1) :
        SubSeq(name, i, i + Len(searchString) - 1) = searchString

opus == <<"o", "p", "u", "s">>
sonnet == <<"s", "o", "n", "n", "e", "t">>
haiku == <<"h", "a", "i", "k", "u">>

\* selectTargetModel (converter.ts:18-47)
selectTargetModel(clientModelName, bigModelName, smallModelName) ==
    LET clientModelLower == toLowerCase(clientModelName) IN
    IF includes(clientModelLower, opus) \/ includes(clientModelLower, sonnet)
    THEN [targetModel |-> bigModelName, warnings |-> <<>>, debugs |-> <<"MODEL_SELECTION">>]
    ELSE IF includes(clientModelLower, haiku)
    THEN [targetModel |-> smallModelName, warnings |-> <<>>, debugs |-> <<"MODEL_SELECTION">>]
    ELSE [targetModel |-> smallModelName, warnings |-> <<"MODEL_SELECTION">>,
          debugs |-> <<"MODEL_SELECTION">>]

\* the client model names: two words of any letter case, recognized or not,
\* after an optional prefix
ModelWords ==
    {<<>>, opus, <<"O", "P", "U", "S">>, <<"O", "p", "u", "S">>, <<"o", "p", "u">>,
     sonnet, <<"S", "O", "N", "N", "E", "T">>, <<"s", "o", "n", "e", "t">>,
     haiku, <<"H", "A", "I", "K", "U">>, <<"H", "a", "i", "k", "u">>, <<"g", "p", "t">>}

ClientModelNames ==
    {prefix \o first \o <<"-">> \o second :
        prefix \in {<<>>, <<"c", "l", "a", "u", "d", "e", "-", "3", "-">>},
        first \in ModelWords, second \in ModelWords}

ModelConfigs == {<<"big-model", "small-model">>, <<"gpt-4o", "gpt-4o">>}

----------------------------------------------------------------------------
(* Actions of model selection *)

\* the call of selectTargetModel
SelectModel ==
    /\ selPc = "ready"
    /\ selOut' = selectTargetModel(selIn.clientModelName, selIn.bigModelName, selIn.smallModelName)
    /\ selPc' = "done"
    /\ UNCHANGED <<selIn, streamVars, convVars, respVars, errVars, srv, proc>>

\* any client model name under any configuration
SelInit ==
    /\ StreamInit
    /\ ConvIdle
    /\ RespIdle
    /\ ErrIdle
    /\ SrvIdle
    /\ ProcIdle
    /\ \E name \in ClientModelNames, config \in ModelConfigs :
         selIn = [clientModelName |-> name, bigModelName |-> config[1],
                  smallModelName |-> config[2]]
    /\ selOut = [targetModel |-> "", warnings |-> <<>>, debugs |-> <<>>]
    /\ selPc = "ready"

SelNext == SelectModel

SpecSel == SelInit /\ [][SelNext]_vars

----------------------------------------------------------------------------
(* The /v1/messages endpoint, server.ts *)

\* MessagesRequestSchema.parse accepting every body
SchemaAccepts_Anything(body) == TRUE

\* MessagesRequestSchema.parse(req.body) returns (server.ts:160)
SchemaAccepts(body) == body = "valid"

\* provider_message of an error detail (errors.ts:139-148): the raw errors of
\* the model that are objects hold error.message 'quota'
ProviderMessage(providerDetails) ==
    IF providerDetails.kind = "details"
       /\ providerDetails.raw_error.kind \in {"object", "parsed"}
       /\ providerDetails.raw_error.value \in {"{error:{message:'quota'}}",
                                               "{\"error\":{\"message\":\"quota\"}}"}
    THEN "quota" ELSE ""

\* buildAnthropicErrorResponse answering with the details as they came
buildAnthropicErrorResponse_Unwrapped(errorType, message, statusCode, providerDetails) ==
    [statusCode |-> statusCode,
     body |-> [type |-> errorType,
               error |-> [type |-> errorType, message |-> "",
                          provider |-> "", provider_message |-> ""]]]

\* buildAnthropicErrorResponse (errors.ts:126-157); provider is "" when absent
buildAnthropicErrorResponse(errorType, message, statusCode, providerDetails) ==
    [statusCode |-> statusCode,
     body |-> [type |-> "error",
               error |-> [type |-> errorType, message |-> message,
                          provider |-> IF providerDetails.kind = "details"
                                       THEN providerDetails.provider_name ELSE "",
                          provider_message |-> ProviderMessage(providerDetails)]]]

\* res.status(statusCode).json(body) and res.json(body): express throws when
\* the headers were sent already, and nothing awaits the handler's promise
Json(s, headersSent, response) ==
    IF headersSent \/ s.responses # <<>>
    THEN [s EXCEPT !.unhandled = TRUE]
    ELSE [s EXCEPT !.responses = Append(@, response)]

\* logAndReturnErrorResponse (errors.ts:159-200)
logAndReturnErrorResponse(s, headersSent, statusCode, anthropicErrorType, message, providerDetails) ==
    Json(s, headersSent,
         buildAnthropicErrorResponse(anthropicErrorType, message, statusCode, providerDetails))

NoProviderDetails == [kind |-> "undefined"]

\* the catch of the handler for an exception of the backend client
\* (server.ts:316-363)
CatchBackendError(s, headersSent, exc) ==
    IF exc.class \in APIErrorClasses
    THEN LET d == getAnthropicErrorDetailsFromException(exc)
         IN logAndReturnErrorResponse(s, headersSent, d.statusCode, d.errorType,
                                      d.errorMessage, d.providerDetails)
    ELSE logAndReturnErrorResponse(s, headersSent, 500, "api_error",
             "An unexpected error occurred while processing the request.", NoProviderDetails)

\* the requests: the body is no JSON, fails the schema or passes it; a valid
\* body asks for a stream or not and may hold a special token of the encoder
Requests ==
    {[body |-> body, stream |-> stream, special |-> special] :
        body \in {"malformed_json", "invalid", "valid"}, stream \in BOOLEAN,
        special \in BOOLEAN}

\* what chat.completions.create rejects with
BackendExceptions ==
    {[class |-> "RateLimitError", status |-> 429, message |-> "429 Rate limit",
      body |-> ErrorBody(ErrorDetails(Metadata(NonObject("string", "openai"),
                                               NonObject("string", "{\"error\":{\"message\":\"quota\"}}"))), Absent)],
     [class |-> "APIError", status |-> 503, message |-> "503 overloaded", body |-> Absent],
     [class |-> "AuthenticationError", status |-> 401, message |-> "", body |-> NonObject("string", "denied")],
     [class |-> "APIError", status |-> 0, message |-> "Connection error.", body |-> Absent],
     [class |-> "Error", status |-> 0, message |-> "socket hang up", body |-> Absent]}

\* what it resolves to for a request that is no stream; a choice without a
\* message makes convertOpenAIToAnthropicResponse throw a TypeError
TextCompletion ==
    [id |-> "chatcmpl-1", usage |-> <<5, 3>>,
     choices |-> <<Choice(ChoiceMessage(Str("Hi"), FALSE, <<>>), "stop")>>]
ToolCompletion ==
    [id |-> "chatcmpl-1", usage |-> <<5, 3>>,
     choices |-> <<Choice(ChoiceMessage(Null, TRUE,
                      <<ToolCall("call_1", "function", "get_weather", "{\"city\":\"Paris\"}")>>),
                      "tool_calls")>>]
EmptyCompletion == [id |-> "", usage |-> <<>>, choices |-> <<>>]
MessagelessCompletion == [id |-> "broken", usage |-> <<>>, choices |-> <<>>]
BackendCompletions == {TextCompletion, ToolCompletion, EmptyCompletion, MessagelessCompletion}

----------------------------------------------------------------------------
(* Actions of the endpoint *)

\* express.json() fails on the body; the first error middleware answers
\* (server.ts:55, 367; errors.ts:203-217)
BodyParserFails ==
    /\ srv.pc = "received"
    /\ srv.request.body = "malformed_json"
    /\ LET d == getAnthropicErrorDetailsFromException(
                    [class |-> "Error", status |-> 0,
                     message |-> "Unexpected token } in JSON at position 1", body |-> Absent])
       IN srv' = [logAndReturnErrorResponse(srv, res.headWrites > 0, d.statusCode, d.errorType,
                                            d.errorMessage, d.providerDetails)
                    EXCEPT !.pc = "done"]
    /\ UNCHANGED <<streamVars, convVars, respVars, errVars, selVars, proc>>

\* the handler up to its first await: validation, model selection, token
\* count, conversion, and the call of chat.completions.create
\* (server.ts:147-270)
HandleRequest ==
    /\ srv.pc = "received"
    /\ srv.request.body # "malformed_json"
    /\ IF ~SchemaAccepts(srv.request.body)
       THEN /\ srv' = [logAndReturnErrorResponse(srv, res.headWrites > 0, 422,
                           "invalid_request_error", "Invalid request body: ZodError",
                           NoProviderDetails)
                         EXCEPT !.pc = "done"]
            /\ UNCHANGED tokenEncoderCache
       ELSE \E loaded \in EncoderOutcomes :
              /\ tokenEncoderCache' = getTokenEncoder(tokenEncoderCache, loaded)
              /\ IF srv.request.special /\ EncodeLength(tokenEncoderCache', SpecialTokenText) < 0
                 THEN srv' = [CatchBackendError(srv, res.headWrites > 0,
                                  [class |-> "Error", status |-> 0,
                                   message |-> EncodeErrorMessage, body |-> Absent])
                                EXCEPT !.pc = "done"]
                 ELSE srv' = [srv EXCEPT !.pc = "calling", !.backendCalls = @ + 1]
    /\ UNCHANGED <<phase, st, res, pulled, thrown, logged, clientConnected, pulledAtDisconnect,
                   convVars, respVars, errVars, selVars, proc>>

\* chat.completions.create rejects (server.ts:316-363)
BackendRejects ==
    /\ srv.pc = "calling"
    /\ \E exc \in BackendExceptions :
         srv' = [CatchBackendError(srv, res.headWrites > 0, exc) EXCEPT !.pc = "done"]
    /\ UNCHANGED <<streamVars, convVars, respVars, errVars, selVars, proc>>

\* it resolves to a completion, which is translated and sent
\* (server.ts:286-315)
BackendReturnsCompletion ==
    /\ srv.pc = "calling"
    /\ ~srv.request.stream
    /\ \E completion \in BackendCompletions :
         IF completion = MessagelessCompletion
         THEN srv' = [CatchBackendError(srv, res.headWrites > 0,
                          [class |-> "Error", status |-> 0,
                           message |-> MalformedErrorMessage, body |-> Absent])
                        EXCEPT !.pc = "done"]
         ELSE srv' = [Json(srv, res.headWrites > 0,
                           [statusCode |-> 200,
                            body |-> convertOpenAIToAnthropicResponse(completion, TRUE)])
                        EXCEPT !.pc = "done"]
    /\ UNCHANGED <<streamVars, convVars, respVars, errVars, selVars, proc>>

\* it resolves to a stream, which is handed to the streaming handler
\* (server.ts:270-284)
BackendReturnsStream ==
    /\ srv.pc = "calling"
    /\ srv.request.stream
    /\ srv' = [srv EXCEPT !.pc = "streaming"]
    /\ UNCHANGED <<streamVars, convVars, respVars, errVars, selVars, proc>>

\* the streaming handler has returned, and with it the endpoint handler
StreamingReturns ==
    /\ srv.pc = "streaming"
    /\ phase \in {"Closed", "Erred"}
    /\ srv' = [srv EXCEPT !.pc = "done"]
    /\ UNCHANGED <<streamVars, convVars, respVars, errVars, selVars, proc>>

\* any request has been received
SrvInit ==
    /\ StreamInit
    /\ ConvIdle
    /\ RespIdle
    /\ ErrIdle
    /\ SelIdle
    /\ ProcIdle
    /\ \E request \in Requests :
         srv = [pc |-> "received", request |-> request, backendCalls |-> 0,
                responses |-> <<>>, unhandled |-> FALSE]

SrvNext ==
    \/ BodyParserFails
    \/ HandleRequest
    \/ BackendRejects
    \/ BackendReturnsCompletion
    \/ BackendReturnsStream
    \/ (srv.pc = "streaming" /\ Next)
    \/ StreamingReturns

SpecSrv == SrvInit /\ [][SrvNext]_vars

----------------------------------------------------------------------------
(* One process serving several requests at once: tokenizer.ts, server.ts,  *)
(* streaming.ts.  A handler runs without interruption from one await to    *)
(* the next; getTokenEncoder holds no await, so a call of it is one step.  *)

\* the number of chunks pulled by each of the concurrent streams
MaxConcurrentFragments == 2

\* the requests in flight: two /v1/messages requests that stream, one
\* /v1/messages/count_tokens request
RequestKinds == <<"stream", "stream", "count_tokens">>

\* the chunks the concurrent streams draw from
ConcurrentChunks ==
    {Chunk(TRUE, TRUE, "Hi", <<>>, ""),
     Chunk(TRUE, TRUE, SpecialTokenText, <<>>, ""),
     Chunk(TRUE, TRUE, "", <<ToolDelta(0, <<"t1">>, "get_weather", "{")>>, ""),
     Chunk(TRUE, TRUE, "", <<>>, "stop")}

\* what a first call of getTokenEncoder builds: encoding_for_model('gpt-4'),
\* when that throws get_encoding('cl100k_base'), when that throws too the
\* dummy encoder (tokenizer.ts:10-51)
LoadEncoder(modelLoads, encodingLoads) ==
    IF modelLoads THEN "cl100k_base"
    ELSE IF encodingLoads THEN "cl100k_base"
    ELSE "dummy"

\* getTokenEncoder building an encoder at every call
getTokenEncoderCall_NoCacheCheck(p, modelLoads, encodingLoads) ==
    [p EXCEPT !.cache = <<[kind |-> LoadEncoder(modelLoads, encodingLoads),
                           instance |-> p.built + 1]>>,
              !.built = @ + 1]

\* getTokenEncoder on the process's cache, a Map with the one key 'gpt-4'
\* kept as a sequence of at most one encoder; instance tells the encoder
\* objects apart (tokenizer.ts:7-54)
getTokenEncoderCall(p, modelLoads, encodingLoads) ==
    IF p.cache = <<>>
    THEN [p EXCEPT !.cache = <<[kind |-> LoadEncoder(modelLoads, encodingLoads),
                                instance |-> p.built + 1]>>,
                   !.built = @ + 1]
    ELSE p

\* a request that has not begun
NewRequest(kind) ==
    [kind |-> kind, phase |-> "NotStarted", st |-> InitialLocals, events |-> <<>>,
     logged |-> <<>>, thrown |-> "", pulled |-> <<>>, encoders |-> <<>>]

\* the locals of the first handler taken for those of every handler
OwnFrame_SharedLocals(p, r) ==
    Frame(p.reqs[1].st, p.reqs[r].events, p.reqs[r].logged, "")

\* the frame of handler r: the locals its call declared, its response, its
\* log records (streaming.ts:24-47)
OwnFrame(p, r) ==
    Frame(p.reqs[r].st, p.reqs[r].events, p.reqs[r].logged, "")

\* the frame becomes the state of handler r
CommitRequest(p, r, f, ended) ==
    [p EXCEPT !.reqs[r].st = f.st,
              !.reqs[r].events = f.events,
              !.reqs[r].logged = f.logged,
              !.reqs[r].thrown = f.thrown,
              !.reqs[r].phase = IF ~ended THEN "Active"
                                ELSE IF f.thrown # "" THEN "Erred" ELSE "Closed"]

----------------------------------------------------------------------------
(* Actions of the process *)

\* countTokensForAnthropicRequest, which begins with getTokenEncoder: the
\* count_tokens endpoint then answers, the messages endpoint goes on to await
\* the backend (server.ts:97, 180; tokenizer.ts:64)
CountTokens(r) ==
    /\ proc.reqs[r].phase = "NotStarted"
    /\ \E modelLoads \in BOOLEAN, encodingLoads \in BOOLEAN :
         LET p == getTokenEncoderCall(proc, modelLoads, encodingLoads) IN
         proc' = [p EXCEPT !.reqs[r].encoders = Append(@, p.cache[1]),
                           !.reqs[r].phase = IF proc.reqs[r].kind = "stream"
                                             THEN "Counted" ELSE "Closed"]
    /\ UNCHANGED <<streamVars, convVars, respVars, errVars, selVars, srv>>

\* the streaming handler is called: getTokenEncoder, message_start and ping
\* (streaming.ts:24-79)
StartHandler(r) ==
    /\ proc.reqs[r].phase = "Counted"
    /\ \E modelLoads \in BOOLEAN, encodingLoads \in BOOLEAN :
         LET p == getTokenEncoderCall(proc, modelLoads, encodingLoads)
             f0 == Frame([p.reqs[r].st EXCEPT !.encoder = p.cache[1].kind],
                         p.reqs[r].events, p.reqs[r].logged, "")
             f1 == writeSSE(f0, messageStartEventData)
             f2 == writeSSE(f1, [type |-> "ping"])
         IN proc' = [CommitRequest(p, r, f2, FALSE)
                       EXCEPT !.reqs[r].encoders = Append(@, p.cache[1])]
    /\ UNCHANGED <<streamVars, convVars, respVars, errVars, selVars, srv>>

\* the upstream stream of handler r yields a chunk (streaming.ts:79-299)
PullConcurrent(r) ==
    /\ proc.reqs[r].phase = "Active"
    /\ Len(proc.reqs[r].pulled) < MaxConcurrentFragments
    /\ \E chunk \in ConcurrentChunks :
         LET f == ProcessChunk(OwnFrame(proc, r), chunk)
             p == [proc EXCEPT !.reqs[r].pulled = Append(@, chunk)]
         IN proc' = IF f.thrown # "" \/ Breaks(chunk)
                    THEN CommitRequest(p, r, Epilogue(f), TRUE)
                    ELSE CommitRequest(p, r, f, FALSE)
    /\ UNCHANGED <<streamVars, convVars, respVars, errVars, selVars, srv>>

\* the upstream stream of handler r ends (streaming.ts:205-299)
ExhaustConcurrent(r) ==
    /\ proc.reqs[r].phase = "Active"
    /\ proc' = CommitRequest(proc, r, Epilogue(OwnFrame(proc, r)), TRUE)
    /\ UNCHANGED <<streamVars, convVars, respVars, errVars, selVars, srv>>

\* the upstream iteration of handler r throws (streaming.ts:79, 247-299)
FailConcurrent(r) ==
    /\ proc.reqs[r].phase = "Active"
    /\ \E message \in UpstreamErrorMessages :
         proc' = CommitRequest(proc, r, Epilogue(Throw(OwnFrame(proc, r), message)), TRUE)
    /\ UNCHANGED <<streamVars, convVars, respVars, errVars, selVars, srv>>

\* the process has started and the requests have arrived
ProcInit ==
    /\ StreamInit
    /\ ConvIdle
    /\ RespIdle
    /\ ErrIdle
    /\ SelIdle
    /\ SrvIdle
    /\ proc = [cache |-> <<>>, built |-> 0,
               reqs |-> [r \in DOMAIN RequestKinds |-> NewRequest(RequestKinds[r])]]

ProcNext ==
    \E r \in DOMAIN RequestKinds :
        \/ CountTokens(r)
        \/ StartHandler(r)
        \/ PullConcurrent(r)
        \/ ExhaustConcurrent(r)
        \/ FailConcurrent(r)

SpecProc == ProcInit /\ [][ProcNext]_vars

----------------------------------------------------------------------------
(* Reading the event sequence *)

Events == res.events

\* the positions of the events of one of the given types
Positions(types) == {i \in 1..Len(Events) : Events[i].type \in types}

BlockEventTypes == {"content_block_start", "content_block_delta", "content_block_stop"}

\* the positions of the events of the given types for block index k
BlockPositions(types, k) == {i \in Positions(types) : Events[i].index = k}

\* the block indices that occur in an emitted content_block_* event
UsedBlockIndices == {Events[i].index : i \in Positions(BlockEventTypes)}

\* the events but the keep-alive ping
EventsWithoutPing == SelectSeq(Events, LAMBDA e : e.type # "ping")

\* the chunk that ended the loop with break, if any
TerminalFinishReason ==
    IF pulled # <<>> /\ Breaks(pulled[Len(pulled)])
    THEN pulled[Len(pulled)].finish_reason
    ELSE ""

----------------------------------------------------------------------------
(* C1 *)

\* C1: in a run without a failure, every block index that occurs in a
\* content_block_* event has exactly one content_block_start, which precedes
\* every content_block_delta of the index, and once the run has ended exactly one
\* content_block_stop, which follows the start and every delta of the index and
\* precedes message_stop; no stop is written before the run ends.
C1_BlockLifecycle ==
    thrown = "" =>
      \A k \in UsedBlockIndices :
        LET starts == BlockPositions({"content_block_start"}, k)
            deltas == BlockPositions({"content_block_delta"}, k)
            stops == BlockPositions({"content_block_stop"}, k)
        IN /\ Cardinality(starts) = 1
           /\ \A b \in starts, d \in deltas : b < d
           /\ phase = "Active" => stops = {}
           /\ phase = "Closed" =>
                /\ Cardinality(stops) = 1
                /\ \A e \in stops :
                     /\ \A b \in starts : b < e
                     /\ \A d \in deltas : d < e
                     /\ \A m \in Positions({"message_stop"}) : e < m

\* C1 witness: a closed run with a text block and a tool block, both with deltas
C1_Witness ==
    /\ phase = "Closed"
    /\ \E k1, k2 \in UsedBlockIndices :
         /\ k1 # k2
         /\ BlockPositions({"content_block_delta"}, k1) # {}
         /\ BlockPositions({"content_block_delta"}, k2) # {}

----------------------------------------------------------------------------
(* C2 *)

\* C2: nothing is written before the handler starts; from then on the first
\* event is the only message_start, with the requested model name, output_tokens
\* 0 and stop_reason null; message_delta and message_stop are written at most
\* once, and a run that ends without a failure ends with message_delta then
\* message_stop, after every content_block_stop.
C2_MessageEnvelope ==
    /\ phase = "NotStarted" => Events = <<>>
    /\ phase # "NotStarted" =>
         /\ Positions({"message_start"}) = {1}
         /\ Events[1].model = originalAnthropicModelName
         /\ Events[1].output_tokens = 0
         /\ Events[1].stop_reason = "null"
    /\ Cardinality(Positions({"message_delta"})) <= 1
    /\ Cardinality(Positions({"message_stop"})) <= 1
    /\ phase = "Closed" =>
         /\ Len(Events) >= 3
         /\ Positions({"message_delta"}) = {Len(Events) - 1}
         /\ Positions({"message_stop"}) = {Len(Events)}
         /\ \A e \in Positions({"content_block_stop"}) : e < Len(Events) - 1

\* C2 witness: a closed run in which two blocks were stopped
C2_Witness ==
    /\ phase = "Closed"
    /\ Cardinality(Positions({"content_block_stop"})) = 2

----------------------------------------------------------------------------
(* C3 *)

\* the message of the failure that the last step of an erred run met
CauseMessages ==
    IF pulled # <<>> /\ pulled[Len(pulled)].choices /\ ~pulled[Len(pulled)].delta
    THEN {MalformedErrorMessage}
    ELSE UpstreamErrorMessages \cup {EncodeErrorMessage}

\* C3: a run that met a failure has written exactly one error event, the last
\* event of the run, of kind api_error and with the message of the cause; no
\* content_block_stop, message_delta or message_stop is written; the request is
\* logged as REQUEST_FAILURE with status 500 and stop reason 'error' and never as
\* REQUEST_COMPLETED; the response is ended exactly once.  A run that met no
\* failure writes no error event.
C3_FailureEndsStream ==
    /\ (phase = "Erred") = (thrown # "")
    /\ phase # "Erred" => Positions({"error"}) = {}
    /\ phase = "Erred" =>
         /\ Positions({"error"}) = {Len(Events)}
         /\ Events[Len(Events)].error = [type |-> "api_error", message |-> thrown]
         /\ thrown \in CauseMessages
         /\ Positions({"content_block_stop", "message_delta", "message_stop"}) = {}
         /\ logged[Len(logged)].event = "REQUEST_FAILURE"
         /\ logged[Len(logged)].status_code = 500
         /\ logged[Len(logged)].stop_reason = "error"
         /\ \A i \in 1..Len(logged) : logged[i].event # "REQUEST_COMPLETED"
         /\ res.ends = 1

\* C3 witness: the token counter throws on a tool-call arguments fragment after a
\* content_block_delta was written
C3_Witness ==
    /\ phase = "Erred"
    /\ thrown = EncodeErrorMessage
    /\ Positions({"content_block_delta"}) # {}
    /\ pulled[Len(pulled)].tool_calls # <<>>
----------------------------------------------------------------------------
(* C4 *)

\* the stop reason the fixed table gives a finish reason, "" standing for a
\* stream that ended without one
TableStopReason(finish_reason) ==
    CASE finish_reason = "stop" -> "end_turn"
      [] finish_reason = "length" -> "max_tokens"
      [] finish_reason = "tool_calls" -> "tool_use"
      [] finish_reason = "function_call" -> "tool_use"
      [] finish_reason = "content_filter" -> "stop_sequence"
      [] OTHER -> "end_turn"

\* C4: the stop_reason of message_delta is the table's value for the finish
\* reason of the terminal chunk, end_turn for any finish reason the table does
\* not hold and for a stream that ends without one, and never null.
C4_StopReasonTable ==
    phase = "Closed" =>
      /\ Events[Len(Events) - 1].stop_reason = TableStopReason(TerminalFinishReason)
      /\ Events[Len(Events) - 1].stop_reason # "null"

----------------------------------------------------------------------------
(* C5 *)

RealId(id) == id # NoId /\ ~StartsWithToolPh(id)

\* the chunk sequence of the scenario: a first chunk whose only tool-call delta,
\* for index 0, carries a real id and a name; then chunks that carry only an
\* arguments fragment for index 0; then a chunk with finish reason tool_calls
IsToolCallScenario(chunks) ==
    /\ Len(chunks) >= 2
    /\ \E id \in {d.id : d \in ToolDeltas0}, name \in {d.name : d \in ToolDeltas0} :
         /\ RealId(id) /\ name # ""
         /\ chunks[1] = Chunk(TRUE, TRUE, "", <<ToolDelta(0, id, name, "")>>, "")
    /\ \A j \in 2..(Len(chunks) - 1) :
         \E arguments \in {d.arguments : d \in ToolDeltas0} \ {""} :
           chunks[j] = Chunk(TRUE, TRUE, "", <<ToolDelta(0, NoId, "", arguments)>>, "")
    /\ chunks[Len(chunks)] = Chunk(TRUE, TRUE, "", <<>>, "tool_calls")

----------------------------------------------------------------------------
(* C6 *)

RECURSIVE ToolCallTokens(_, _)
ToolCallTokens(encoder, tool_calls) ==
    IF tool_calls = <<>> THEN 0
    ELSE (IF Head(tool_calls).arguments # ""
          THEN EncodeLength(encoder, Head(tool_calls).arguments) ELSE 0)
         + ToolCallTokens(encoder, Tail(tool_calls))

\* the token counts of every non-empty text delta and arguments fragment of the
\* chunks, those of chunks without choices left out
RECURSIVE ConsumedTokens(_, _)
ConsumedTokens(encoder, chunks) ==
    IF chunks = <<>> THEN 0
    ELSE LET chunk == chunks[Len(chunks)] IN
         ConsumedTokens(encoder, SubSeq(chunks, 1, Len(chunks) - 1))
         + (IF chunk.choices
            THEN (IF chunk.content # "" THEN EncodeLength(encoder, chunk.content) ELSE 0)
                 + ToolCallTokens(encoder, chunk.tool_calls)
            ELSE 0)

C6_CountIsSum ==
    /\ phase = "NotStarted" => st.outputTokenCount = 0
    /\ (phase # "NotStarted" /\ thrown = "") =>
         st.outputTokenCount = ConsumedTokens(st.encoder, pulled)
    /\ phase = "Closed" =>
         Events[Len(Events) - 1].output_tokens = ConsumedTokens(st.encoder, pulled)

\* C6: the running count starts at 0, equals after every chunk the sum of the
\* token counts of the non-empty text deltas and arguments fragments consumed,
\* whether or not their block's start was written, and never decreases;
\* message_delta carries that sum.
C6_OutputTokens ==
    []C6_CountIsSum /\ [][st'.outputTokenCount >= st.outputTokenCount]_vars

\* C6 witness: a closed run that counted the fragments of a tool block whose
\* start was never written
C6_Witness ==
    /\ phase = "Closed"
    /\ \E idx \in DOMAIN st.toolStates :
         /\ ~SetHas(st.sentToolBlockStarts, idx)
         /\ st.toolStates[idx].arguments_buffer # ""
    /\ Events[Len(Events) - 1].output_tokens > 0

----------------------------------------------------------------------------
(* C7 *)

\* C7: once the client has gone away no further chunk is pulled from the
\* upstream stream and no content_block_stop, message_delta or message_stop is
\* written.
C7_StopsOnDisconnect ==
    ~clientConnected =>
      /\ Len(pulled) = pulledAtDisconnect
      /\ Positions({"content_block_stop", "message_delta", "message_stop"}) = {}

----------------------------------------------------------------------------
(* Reading the translated message list *)

\* the source message under conversion (the last of the request) and the
\* messages before it
MainMessage == convIn.messages[Len(convIn.messages)]
LeadMessages == SubSeq(convIn.messages, 1, Len(convIn.messages) - 1)
OutMessages == convOut.messages

BlocksOfType(msg, types) == SelectSeq(msg.blocks, LAMBDA b : b.type \in types)

\* P of a user block array: its text blocks and base64 image blocks, in order
DataUrl(block) == "data:" \o block.media_type \o ";base64," \o block.data
IsPartBlock(block) ==
    block.type = "text" \/ (block.type = "image" /\ block.source_type = "base64")
PartOfBlock(block) ==
    IF block.type = "text" THEN [type |-> "text", text |-> block.text]
    ELSE [type |-> "image_url", url |-> DataUrl(block)]
PartsOfMessage(msg) ==
    LET partBlocks == SelectSeq(msg.blocks, IsPartBlock)
    IN [i \in 1..Len(partBlocks) |-> PartOfBlock(partBlocks[i])]

\* the parts and the assistant texts a content string can encode
PartsDomain ==
    {[type |-> "text", text |-> text] : text \in {"", "Hello", "World"}}
    \cup {[type |-> "image_url", url |-> DataUrl(ImageBlock("base64"))]}
PartsCandidates == SeqsUpTo(PartsDomain, MaxBlocks) \ {<<>>}
TextsCandidates == SeqsUpTo({"Hello", "World"}, MaxBlocks) \ {<<>>}
\* JSON.parse of a multi-part content and the split of a joined text, as the
\* inverses of the encodings over the candidates
ParsedParts ==
    [encoded \in {JSONParts(parts) : parts \in PartsCandidates} |->
        CHOOSE parts \in PartsCandidates : JSONParts(parts) = encoded]
SplitTexts ==
    [joined \in {Join(texts, "\n") : texts \in TextsCandidates} |->
        CHOOSE texts \in TextsCandidates : Join(texts, "\n") = joined]
\* no two candidates share an encoding
EncodingIsInjective ==
    \A parts \in PartsCandidates : ParsedParts[JSONParts(parts)] = parts

\* the content of a block as it can be found again in the output; a block
\* whose text is empty has no content to place
Atom(kind, payload) == <<kind, payload>>
PartAtoms(parts) ==
    LET shown == SelectSeq(parts, LAMBDA part : part.type = "image_url" \/ part.text # "")
    IN [i \in 1..Len(shown) |->
          IF shown[i].type = "text" THEN Atom("text", shown[i].text)
          ELSE Atom("image", shown[i].url)]

\* the block contents of a source message, in block order
AtomsOfBlock(role, block) ==
    CASE block.type = "text" -> IF block.text # "" THEN <<Atom("text", block.text)>> ELSE <<>>
      [] block.type = "image" ->
           IF role = "user" /\ block.source_type = "base64"
           THEN <<Atom("image", DataUrl(block))>> ELSE <<>>
      [] block.type = "tool_use" ->
           IF role = "assistant" THEN <<Atom("tool_use", block.id)>> ELSE <<>>
      [] block.type = "tool_result" ->
           IF role = "user" THEN <<Atom("tool_result", block.tool_use_id)>> ELSE <<>>

RECURSIVE Flatten(_)
Flatten(seqs) == IF seqs = <<>> THEN <<>> ELSE Head(seqs) \o Flatten(Tail(seqs))

SourceAtoms(msg) ==
    IF msg.kind = "string"
    THEN IF msg.text # "" THEN <<Atom("text", msg.text)>> ELSE <<>>
    ELSE Flatten([i \in 1..Len(msg.blocks) |-> AtomsOfBlock(msg.role, msg.blocks[i])])

\* the block contents a target message carries, read back from it in the
\* order it carries them
ContentAtoms(content) ==
    IF ~Truthy(content) THEN <<>>
    ELSE IF content[2] \in DOMAIN ParsedParts THEN PartAtoms(ParsedParts[content[2]])
    ELSE IF content[2] \in DOMAIN SplitTexts
    THEN [i \in 1..Len(SplitTexts[content[2]]) |-> Atom("text", SplitTexts[content[2]][i])]
    ELSE <<Atom("text", content[2])>>

TargetAtoms(msg) ==
    CASE msg.role = "tool" -> <<Atom("tool_result", msg.tool_call_id)>>
      [] msg.role = "system" -> <<>>
      [] OTHER ->
           ContentAtoms(msg.content)
           \o [i \in 1..Len(msg.tool_calls) |-> Atom("tool_use", msg.tool_calls[i].id)]

\* the block contents of the whole output, system prompt aside, in order
OutputAtoms == Flatten([i \in 1..Len(OutMessages) |-> TargetAtoms(OutMessages[i])])

----------------------------------------------------------------------------
(* C8 *)

JoinedText(msg) ==
    LET texts == BlocksOfType(msg, {"text"})
    IN Join(SelectSeq([i \in 1..Len(texts) |-> texts[i].text], LAMBDA t : t # ""), "\n")

ToolUseIds(msg) ==
    LET uses == BlocksOfType(msg, {"tool_use"}) IN [i \in 1..Len(uses) |-> uses[i].id]

ToolCallIds(msg) == [i \in 1..Len(msg.tool_calls) |-> msg.tool_calls[i].id]

\* C8: in the list convertAnthropicToOpenAIMessages returns, with or without
\* a logger, every assistant-role message carrying tool_calls has content
\* null; an assistant source message with tool_use blocks ends the list with
\* one assistant message of content null carrying all its tool calls in
\* order, preceded, when its joined text is not empty, by one assistant
\* message whose content is that text and which carries no tool calls.
C8_NullContentWithToolCalls ==
    convPc = "done" =>
      /\ \A i \in 1..Len(OutMessages) :
           (OutMessages[i].role = "assistant" /\ OutMessages[i].tool_calls # <<>>)
             => OutMessages[i].content = Null
      /\ (/\ MainMessage.role = "assistant"
          /\ MainMessage.kind = "array"
          /\ ToolUseIds(MainMessage) # <<>>) =>
           LET n == Len(OutMessages) IN
           /\ n >= 1
           /\ OutMessages[n].role = "assistant"
           /\ OutMessages[n].content = Null
           /\ ToolCallIds(OutMessages[n]) = ToolUseIds(MainMessage)
           /\ JoinedText(MainMessage) # "" =>
                /\ n >= 2
                /\ OutMessages[n - 1] = AssistantMessage(Str(JoinedText(MainMessage)), <<>>)
                /\ \A i \in 1..(n - 2) :
                     OutMessages[i].content # Str(JoinedText(MainMessage))

\* C8 witness: without a logger, an assistant message with a text block and a
\* tool_use block has been converted after an assistant message of empty
\* content, and an assistant message with tool calls is in the list
C8_Witness ==
    /\ convPc = "done"
    /\ ~convIn.logger
    /\ LeadMessages = <<StringMessage("assistant", "")>>
    /\ MainMessage.role = "assistant"
    /\ BlocksOfType(MainMessage, {"text"}) # <<>>
    /\ BlocksOfType(MainMessage, {"tool_use"}) # <<>>
    /\ \E i \in 1..Len(OutMessages) : OutMessages[i].tool_calls # <<>>

----------------------------------------------------------------------------
(* C9 *)

AllSourceAtoms == Flatten([i \in 1..Len(convIn.messages) |-> SourceAtoms(convIn.messages[i])])

\* the contents of a source message, kind by kind: tool results before the
\* text and image parts of a user message, text before the tool calls of an
\* assistant message; within a kind, block order
KindOrderedAtoms(msg) ==
    LET atoms == SourceAtoms(msg) IN
    IF msg.role = "user"
    THEN SelectSeq(atoms, LAMBDA a : a[1] = "tool_result")
         \o SelectSeq(atoms, LAMBDA a : a[1] # "tool_result")
    ELSE SelectSeq(atoms, LAMBDA a : a[1] # "tool_use")
         \o SelectSeq(atoms, LAMBDA a : a[1] = "tool_use")

\* C9 as stated: the output places the contents of the blocks in block order,
\* source message after source message.
C9_BlockOrderPreserved ==
    convPc = "done" => OutputAtoms = AllSourceAtoms

\* C9 amended: block order is kept within each kind and source messages keep
\* their order, while the tool results of a user message come before its text
\* and image parts and the text of an assistant message before its tool
\* calls.
C9_OrderWithinKind ==
    convPc = "done" =>
      OutputAtoms = Flatten([i \in 1..Len(convIn.messages) |-> KindOrderedAtoms(convIn.messages[i])])

\* C9 witness: a user message whose text block precedes a tool_result block
\* and whose second tool_result follows, converted after another message
C9_Witness ==
    /\ convPc = "done"
    /\ LeadMessages # <<>>
    /\ MainMessage.role = "user"
    /\ \E i, j \in 1..Len(MainMessage.blocks) :
         /\ i < j
         /\ MainMessage.blocks[i].type = "text"
         /\ MainMessage.blocks[i].text # ""
         /\ MainMessage.blocks[j].type = "tool_result"
    /\ Len(OutputAtoms) >= 3

----------------------------------------------------------------------------
(* C10 *)

UserRoleCount(messages) == Len(SelectSeq(messages, LAMBDA m : m.role = "user"))

----------------------------------------------------------------------------
(* C11 *)

\* the string each content of ToolResultContents is to be serialized to
ExpectedToolContent(content) ==
    CASE content = StringContent("sunny") -> "sunny"
      [] content = StringContent("found") -> "found"
      [] content = StringContent("") -> ""
      [] content = ArrayContent(<<>>) -> ""
      [] content = ArrayContent(<<[type |-> "text", text |-> "12:00"], [type |-> "image"]>>)
           -> "12:00\n{\"type\":\"image\"}"
      [] content = ArrayContent(<<[type |-> "text", text |-> "a"], [type |-> "text", text |-> ""],
                                  [type |-> "text", text |-> "b"]>>)
           -> "a\n\nb"
      [] content = ArrayContent(<<StringItem("raw"), NumberItem("7"), [type |-> "text"]>>)
           -> "\"raw\"\n7\n{\"type\":\"text\"}"
      [] content = ArrayContent(<<CircularItem>>) -> "<unserializable_item type='object'>"

\* the tool_result blocks of the user messages of the request, in order
UserToolResults ==
    Flatten([i \in 1..Len(convIn.messages) |->
               IF convIn.messages[i].role = "user"
               THEN BlocksOfType(convIn.messages[i], {"tool_result"})
               ELSE <<>>])

ToolRoleMessages == SelectSeq(OutMessages, LAMBDA m : m.role = "tool")

----------------------------------------------------------------------------
(* C12 *)

ResponseToolUses == SelectSeq(respOut.content, LAMBDA b : b.type = "tool_use")

MainToolUses == BlocksOfType(MainMessage, {"tool_use"})

\* C12: when the tool calls produced for the tool_use blocks of an assistant
\* message come back in a completion, the response holds one tool_use block
\* per source block, in order, with the same id and name, and with an equal
\* input when the source input serializes to JSON.
C12_ToolCallRoundTrip ==
    respPc = "done" =>
      /\ Len(ResponseToolUses) = Len(MainToolUses)
      /\ \A i \in 1..Len(MainToolUses) :
           /\ ResponseToolUses[i].id = MainToolUses[i].id
           /\ ResponseToolUses[i].name = MainToolUses[i].name
           /\ MainToolUses[i].input # CircularInput =>
                ResponseToolUses[i].input = ObjectValue(MainToolUses[i].input)

\* C12 witness: two tool_use blocks with different inputs went through both
\* translations
C12_Witness ==
    /\ respPc = "done"
    /\ Len(MainToolUses) >= 2
    /\ \E i, j \in 1..Len(ResponseToolUses) :
         /\ ResponseToolUses[i].input = ObjectValue(<<<<"city", "Paris">>>>)
         /\ ResponseToolUses[j].input = ObjectValue(<<>>)

----------------------------------------------------------------------------
(* C13 *)

FirstChoices ==
    IF respIn.completion.choices = <<>> THEN <<>> ELSE <<respIn.completion.choices[1]>>

\* the function tool calls of the first choice, none when there is no choice
\* or the message has no tool_calls
FirstFunctionCalls ==
    IF FirstChoices = <<>> \/ ~FirstChoices[1].message.has_tool_calls THEN <<>>
    ELSE SelectSeq(FirstChoices[1].message.tool_calls, LAMBDA call : call.type = "function")

\* the text of the first choice, "" when it is null, empty or there is no choice
FirstText ==
    IF FirstChoices = <<>> \/ FirstChoices[1].message.content = Null THEN ""
    ELSE FirstChoices[1].message.content[2]

\* C13: the content returned is never empty and is built from choices[0]
\* alone: a text block iff the first choice's content is neither null nor
\* empty, then one tool_use block per function tool call in order, and a
\* single empty text block when there is nothing else, also for a completion
\* without choices; a choice after the first changes nothing.
C13_ContentFromFirstChoice ==
    respPc = "done" =>
      LET content == respOut.content
          offset == IF FirstText # "" THEN 1 ELSE 0
      IN /\ Len(content) >= 1
         /\ FirstText # "" => content[1] = [type |-> "text", text |-> FirstText]
         /\ (FirstText # "" \/ FirstFunctionCalls # <<>>) =>
              /\ Len(content) = offset + Len(FirstFunctionCalls)
              /\ \A i \in 1..Len(FirstFunctionCalls) :
                   /\ content[offset + i].type = "tool_use"
                   /\ content[offset + i].id = FirstFunctionCalls[i].id
                   /\ content[offset + i].name = FirstFunctionCalls[i].function.name
         /\ (FirstText = "" /\ FirstFunctionCalls = <<>>) =>
              content = <<[type |-> "text", text |-> ""]>>
         /\ respOut = convertOpenAIToAnthropicResponse(
                          [respIn.completion EXCEPT !.choices = FirstChoices], respIn.logger)

\* C13 witness: a completion with two choices, whose first holds text, a
\* function call whose arguments do not parse and a call that is no function
\* call, has been translated
C13_Witness ==
    /\ respPc = "done"
    /\ Len(respIn.completion.choices) = 2
    /\ FirstText = "Hi"
    /\ Len(FirstFunctionCalls) = 2
    /\ Len(FirstChoices[1].message.tool_calls) = 3
    /\ \E i \in 1..Len(FirstFunctionCalls) : FirstFunctionCalls[i].id = "call_7"

----------------------------------------------------------------------------
(* C14 *)

\* the input the claim prescribes for an arguments string
StructuredInput(arguments) ==
    LET parsed == JSONParse(arguments) IN
    CASE parsed = SyntaxError -> ErrorParsingArguments(arguments)
      [] parsed.json = "object" -> parsed
      [] OTHER -> WrappedValue(parsed)

\* C14: the input of every tool_use block is a JSON object: the parsed
\* arguments when they parse to an object, {value: parsed} when they parse to
\* a number, string, boolean, null or array, {error_parsing_arguments: raw}
\* when they do not parse; the translation completes whatever the arguments.
C14_StructuredInput ==
    respPc = "done" =>
      /\ Len(ResponseToolUses) = Len(FirstFunctionCalls)
      /\ \A i \in 1..Len(FirstFunctionCalls) :
           /\ ResponseToolUses[i].input.json = "object"
           /\ ResponseToolUses[i].input = StructuredInput(FirstFunctionCalls[i].function.arguments)

----------------------------------------------------------------------------
(* C15 *)

\* C15: for a completion with a choice, stop_reason is the table's value for
\* the finish reason of the first choice, end_turn when it is missing or not
\* in the table, and tool_use when it is tool_calls or function_call, with or
\* without tool calls in the message.
C15_ResponseStopReason ==
    (respPc = "done" /\ respIn.completion.choices # <<>>) =>
      /\ respOut.stop_reason = TableStopReason(respIn.completion.choices[1].finish_reason)
      /\ respIn.completion.choices[1].finish_reason \in {"tool_calls", "function_call"}
           => respOut.stop_reason = "tool_use"

----------------------------------------------------------------------------
(* C16 *)

\* the kind the fixed table gives a status, api_error for any other status
\* and for a missing one
TableErrorKind(status) ==
    CASE status \in {400, 422} -> "invalid_request_error"
      [] status = 401 -> "authentication_error"
      [] status = 403 -> "permission_error"
      [] status = 404 -> "not_found_error"
      [] status = 413 -> "request_too_large_error"
      [] status = 429 -> "rate_limit_error"
      [] status \in {500, 502, 504} -> "api_error"
      [] status = 503 -> "overloaded_error"
      [] OTHER -> "api_error"

\* the kind of each specific subtype
SubtypeKind ==
    [AuthenticationError |-> "authentication_error", RateLimitError |-> "rate_limit_error",
     BadRequestError |-> "invalid_request_error", PermissionDeniedError |-> "permission_error",
     NotFoundError |-> "not_found_error", InternalServerError |-> "api_error"]

\* C16: the kind is the subtype's kind for the six specific subtypes whatever
\* the status, the table's value of the status for any other backend
\* exception, api_error for a status outside the table or missing, and
\* api_error for an exception that is no backend exception.
C16_ErrorKind ==
    errPc = "done" =>
      errOut.errorType =
        IF errIn.class \in DOMAIN SubtypeKind THEN SubtypeKind[errIn.class]
        ELSE IF errIn.class = "Error" THEN "api_error"
        ELSE TableErrorKind(errIn.status)

\* C16 witness: a rate limit exception whose status is 503 has been mapped to
\* rate_limit
C16_Witness ==
    /\ errPc = "done"
    /\ errIn.class = "RateLimitError"
    /\ errIn.status = 503
    /\ errOut.errorType = "rate_limit_error"

----------------------------------------------------------------------------
(* C17 *)

\* the object the provider metadata is looked for in: body.error when the
\* body has one, else the body
DetailsOfBody(body) ==
    IF body.kind # "object" THEN Absent
    ELSE IF body.error.kind # "absent" THEN body.error
    ELSE ErrorDetails(body.metadata)

\* the body carries provider metadata: a metadata object with a non-empty
\* string provider_name
CarriesProviderMetadata(exc) ==
    /\ exc.class # "Error"
    /\ DetailsOfBody(exc.body).kind = "object"
    /\ DetailsOfBody(exc.body).metadata.kind = "object"
    /\ DetailsOfBody(exc.body).metadata.provider_name = NonObject("string", "openai")

\* C17: for every exception and body shape the mapper returns, with a
\* non-empty message; provider details are absent when the body carries no
\* provider metadata and present otherwise, and a raw payload that is a
\* string and no JSON is kept under raw_string_parse_failed.
C17_MapperTotal ==
    errPc = "done" =>
      /\ errOut.errorMessage # ""
      /\ ~CarriesProviderMetadata(errIn) => errOut.providerDetails = [kind |-> "undefined"]
      /\ CarriesProviderMetadata(errIn) =>
           /\ errOut.providerDetails.kind = "details"
           /\ errOut.providerDetails.provider_name = "openai"
           /\ DetailsOfBody(errIn.body).metadata.raw = NonObject("string", "upstream said no") =>
                errOut.providerDetails.raw_error
                  = [kind |-> "raw_string_parse_failed", value |-> "upstream said no"]

\* C17 witness: a backend exception with an empty message and a raw payload
\* that is no JSON has been mapped
C17_Witness ==
    /\ errPc = "done"
    /\ errIn.message = ""
    /\ CarriesProviderMetadata(errIn)
    /\ errOut.providerDetails.raw_error.kind = "raw_string_parse_failed"

----------------------------------------------------------------------------
(* C18 *)

\* the kinds of error of the source dialect (types.ts:122-131)
AnthropicErrorTypes ==
    {"invalid_request_error", "authentication_error", "permission_error", "not_found_error",
     "rate_limit_error", "api_error", "overloaded_error", "request_too_large_error"}

\* the response is one error payload {type: 'error', error: {type, message}}
\* of the source dialect under an error status
IsErrorPayload(response) ==
    /\ response.statusCode \in 400..599
    /\ response.body.type = "error"
    /\ response.body.error.type \in AnthropicErrorTypes
    /\ response.body.error.message # ""

\* C18: a request whose body fails the schema never gets past validation: the
\* backend is not called for it, no stream is started, and what it is answered
\* with is one invalid_request error under status 422; the request is not
\* taken up again.
C18_ValidationBeforeBackend ==
    srv.request.body = "invalid" =>
        /\ srv.pc \in {"idle", "received", "done"}
        /\ srv.backendCalls = 0
        /\ phase = "NotStarted"
        /\ res.headWrites = 0
        /\ srv.pc = "received" => srv.responses = <<>>
        /\ srv.pc = "done" =>
             /\ Len(srv.responses) = 1
             /\ IsErrorPayload(srv.responses[1])
             /\ srv.responses[1].statusCode = 422
             /\ srv.responses[1].body.error.type = "invalid_request_error"
             /\ ~ENABLED SrvNext

\* C18 witness: a request that failed the schema has been answered
C18_Witness ==
    /\ srv.request.body = "invalid"
    /\ srv.pc = "done"
    /\ srv.responses # <<>>
    /\ srv.responses[1].statusCode = 422

----------------------------------------------------------------------------
(* C19 *)

\* the response is a success body: the translated message under status 200
IsSuccessBody(response) == response.statusCode = 200

\* the SSE stream has ended with message_stop or with one error event
StreamEnded ==
    /\ res.headWrites = 1
    /\ res.ends = 1
    /\ Events # <<>>
    /\ \/ /\ phase = "Closed"
          /\ Events[Len(Events)].type = "message_stop"
          /\ Positions({"error"}) = {}
       \/ /\ phase = "Erred"
          /\ Events[Len(Events)].type = "error"
          /\ Cardinality(Positions({"error"})) = 1
          /\ Positions({"message_stop"}) = {}

\* C19: a request ends in exactly one outcome: a success body, or one error
\* payload of the source dialect with its status, or an SSE stream ended by
\* message_stop or by one error event.  No response is written twice, no body
\* is sent once the SSE head is out, nothing is thrown past the handler, and
\* the handler can always go on before the stream and once it has ended.
C19_OneTerminalOutcome ==
    /\ ~srv.unhandled
    /\ Len(srv.responses) <= 1
    /\ res.headWrites <= 1
    /\ res.ends <= 1
    /\ res.headWrites > 0 => srv.responses = <<>>
    /\ srv.pc = "received" => ENABLED (BodyParserFails \/ HandleRequest)
    /\ srv.pc = "calling" => ENABLED (BackendRejects \/ BackendReturnsStream)
    /\ (srv.pc = "streaming" /\ phase \in {"Closed", "Erred"}) => ENABLED StreamingReturns
    /\ srv.pc = "done" =>
         \/ /\ Len(srv.responses) = 1
            /\ res.headWrites = 0
            /\ IsSuccessBody(srv.responses[1]) \/ IsErrorPayload(srv.responses[1])
         \/ /\ srv.responses = <<>>
            /\ StreamEnded

\* C19 witness: the backend refused the request with a rate limit, which
\* reached the caller as one rate_limit_error payload with the provider's
\* message under status 429
C19_Witness ==
    /\ srv.pc = "done"
    /\ srv.backendCalls = 1
    /\ Len(srv.responses) = 1
    /\ srv.responses[1].statusCode = 429
    /\ srv.responses[1].body.error.type = "rate_limit_error"
    /\ srv.responses[1].body.error.provider_message = "quota"

----------------------------------------------------------------------------
(* C20 *)

\* the upper-case form of a lower-case letter of the model
UpperCaseOf(char) ==
    IF \E upper \in DOMAIN UpperCaseLetters : UpperCaseLetters[upper] = char
    THEN CHOOSE upper \in DOMAIN UpperCaseLetters : UpperCaseLetters[upper] = char
    ELSE char

\* the word occurs in the name in some letter case
OccursAnyCase(name, word) ==
    \E i \in 1..(Len(name) - Len(word) + 1) :
        \A k \in 1..Len(word) : name[i + k - 1] \in {word[k], UpperCaseOf(word[k])}

ToUpperCase(name) == [i \in 1..Len(name) |-> UpperCaseOf(name[i])]

\* C20: the name returned is the big name when the client name holds opus or
\* sonnet in any letter case, also beside haiku, the small name when it holds
\* haiku only, and else the small name with exactly one warning; a recognized
\* name logs no warning, and the name in upper case gives the same result.
C20_ModelSelection ==
    selPc = "done" =>
      LET name == selIn.clientModelName
          big == OccursAnyCase(name, opus) \/ OccursAnyCase(name, sonnet)
          small == ~big /\ OccursAnyCase(name, haiku)
      IN /\ selOut.targetModel \in {selIn.bigModelName, selIn.smallModelName}
         /\ big => (selOut.targetModel = selIn.bigModelName /\ selOut.warnings = <<>>)
         /\ small => (selOut.targetModel = selIn.smallModelName /\ selOut.warnings = <<>>)
         /\ (~big /\ ~small) =>
              (selOut.targetModel = selIn.smallModelName /\ Len(selOut.warnings) = 1)
         /\ selOut = selectTargetModel(ToUpperCase(name), selIn.bigModelName, selIn.smallModelName)

\* C20 witness: a name holding HAIKU and then Opus in mixed case has been
\* mapped to the big model
C20_Witness ==
    /\ selPc = "done"
    /\ selIn.clientModelName
         = <<"H", "A", "I", "K", "U", "-", "O", "p", "u", "S">>
    /\ selIn.bigModelName # selIn.smallModelName
    /\ selOut.targetModel = selIn.bigModelName

----------------------------------------------------------------------------
(* C21 *)

\* every encoder a call of getTokenEncoder has returned so far, over all
\* requests
ReturnedEncoders ==
    UNION {{proc.reqs[r].encoders[i] : i \in 1..Len(proc.reqs[r].encoders)} :
              r \in DOMAIN proc.reqs}

\* the calls of getTokenEncoder request r has made at its phase
CallsMade(r) ==
    CASE proc.reqs[r].phase = "NotStarted" -> 0
      [] proc.reqs[r].kind = "count_tokens" -> 1
      [] proc.reqs[r].phase = "Counted" -> 1
      [] OTHER -> 2

C21_OneEncoder ==
    /\ proc.built <= 1
    /\ Len(proc.cache) = proc.built
    /\ ReturnedEncoders \subseteq {proc.cache[i] : i \in 1..Len(proc.cache)}
    /\ \A e \in ReturnedEncoders : e.kind \in EncoderOutcomes
    /\ \A r \in DOMAIN proc.reqs : Len(proc.reqs[r].encoders) = CallsMade(r)
    /\ LoadEncoder(FALSE, FALSE) = "dummy"

\* C21: however the requests' first uses of the encoder interleave, one
\* encoder at most is built in the process, every call of getTokenEncoder
\* returns that one, the cached encoder is never replaced, and every call
\* returns an encoder, the fallback when neither real one loads.
C21_EncoderBuiltOnce ==
    []C21_OneEncoder /\ [][proc.cache # <<>> => proc'.cache = proc.cache]_vars

\* C21 witness: neither real encoder loaded; the three requests made five
\* calls between them and all got the one fallback encoder
C21_Witness ==
    /\ proc.reqs # <<>>
    /\ proc.built = 1
    /\ proc.cache[1].kind = "dummy"
    /\ \A r \in DOMAIN proc.reqs :
         /\ proc.reqs[r].encoders # <<>>
         /\ proc.reqs[r].kind = "stream" => Len(proc.reqs[r].encoders) = 2
    /\ Cardinality(ReturnedEncoders) = 1

----------------------------------------------------------------------------
(* C22 *)

\* the block indices of the content_block_stop events, in the order written
StopIndices ==
    LET stops == SelectSeq(Events, LAMBDA e : e.type = "content_block_stop")
    IN [i \in 1..Len(stops) |-> stops[i].index]

\* the members of a set of numbers in ascending order
RECURSIVE Ascending(_)
Ascending(S) ==
    IF S = {} THEN <<>>
    ELSE LET least == CHOOSE x \in S : \A y \in S : x <= y
         IN <<least>> \o Ascending(S \ {least})

\* the tool blocks whose start was written
StartedToolBlocks == {st.sentToolBlockStarts[i] : i \in 1..Len(st.sentToolBlockStarts)}

\* C22: a closed run has written content_block_stop for the text block first,
\* when there is one, and then for every tool block whose start was written,
\* in ascending order of block index, whatever the order of their starts.
C22_StopsAscending ==
    phase = "Closed" =>
      StopIndices =
        (IF st.textBlockAnthropicIdx # NoIdx THEN <<st.textBlockAnthropicIdx>> ELSE <<>>)
        \o Ascending(StartedToolBlocks)

----------------------------------------------------------------------------
(* C23 *)

\* a fragment carrying a terminal finish reason
IsTerminal(chunk) == chunk.choices /\ chunk.delta /\ chunk.finish_reason # ""

\* the position of the first content_block_stop, or past the end
FirstStop ==
    IF Positions({"content_block_stop"}) = {} THEN Len(Events) + 1
    ELSE CHOOSE i \in Positions({"content_block_stop"}) :
           \A j \in Positions({"content_block_stop"}) : i <= j

\* the deltas the terminal fragment carries were written before finalization
TerminalDeltasWritten(chunk) ==
    /\ chunk.content # "" =>
         \E i \in 1..(FirstStop - 1) :
            /\ Events[i] = textDeltaEvent(st.textBlockAnthropicIdx, chunk.content)
            /\ \A j \in (i + 1)..Len(Events) : Events[j].type # "content_block_delta"
    /\ \A k \in 1..Len(chunk.tool_calls) :
         LET toolDelta == chunk.tool_calls[k]
             idx == st.openaiToolIdxToAnthropicBlockIdx[toolDelta.index]
         IN (toolDelta.arguments # "" /\ SetHas(st.sentToolBlockStarts, idx)) =>
              \E i \in 1..(FirstStop - 1) : Events[i] = argsDeltaEvent(idx, toolDelta.arguments)

C23_TerminalIsLast ==
    /\ \A i \in 1..(Len(pulled) - 1) : ~IsTerminal(pulled[i])
    /\ (pulled # <<>> /\ IsTerminal(pulled[Len(pulled)])) =>
         /\ phase \in {"Closed", "Erred"}
         /\ thrown = "" =>
              /\ phase = "Closed"
              /\ TerminalDeltasWritten(pulled[Len(pulled)])
              /\ st.outputTokenCount = ConsumedTokens(st.encoder, pulled)

\* C23: a fragment with a finish reason is the last one consumed: the run is
\* over once it has been processed, and nothing is pulled, written, counted
\* or changed afterwards; the text delta and the tool-call deltas it carries
\* itself are written before the first content_block_stop.
C23_NothingAfterTerminal ==
    /\ []C23_TerminalIsLast
    /\ [][(phase \in {"Closed", "Erred"}) => (UNCHANGED <<pulled, st, res, logged, thrown>>)]_vars

\* C23 witness: a run closed by a fragment that carried a finish reason and a
\* text delta, after another fragment
C23_Witness ==
    /\ phase = "Closed"
    /\ Len(pulled) >= 2
    /\ IsTerminal(pulled[Len(pulled)])
    /\ pulled[Len(pulled)].content # ""
    /\ Events[FirstStop - 1] = textDeltaEvent(st.textBlockAnthropicIdx, pulled[Len(pulled)].content)

----------------------------------------------------------------------------
(* C24 *)

\* the positions of the content_block_start events of tool block idx
ToolStartPositions(idx) ==
    {i \in Positions({"content_block_start"}) :
        Events[i].index = idx /\ Events[i].content_block.type = "tool_use"}

\* the block has a non-placeholder id and a non-empty name
BlockReady(locals, idx) ==
    /\ idx \in DOMAIN locals.toolStates
    /\ RealId(locals.toolStates[idx].id)
    /\ locals.toolStates[idx].name # ""

C24_StartIffReady ==
    \A idx \in DOMAIN st.toolStates :
      /\ Cardinality(ToolStartPositions(idx)) <= 1
      /\ (ToolStartPositions(idx) # {}) = SetHas(st.sentToolBlockStarts, idx)
      /\ SetHas(st.sentToolBlockStarts, idx) => BlockReady(st, idx)
      /\ (thrown = "" /\ BlockReady(st, idx)) => SetHas(st.sentToolBlockStarts, idx)
      /\ \A i \in ToolStartPositions(idx) :
           Events[i].content_block =
             [type |-> "tool_use", id |-> st.toolStates[idx].id,
              name |-> st.toolStates[idx].name, input |-> "{}"]

\* C24: a tool block has at most one content_block_start; it is written in
\* the step that makes the block have a real id and a non-empty name, not
\* before and not later, carries that id, that name and input {}, and a block
\* whose id stays a placeholder or whose name stays empty has none.
C24_ToolStartOnce ==
    /\ []C24_StartIffReady
    /\ [][\A idx \in DOMAIN st'.toolStates :
            (SetHas(st'.sentToolBlockStarts, idx) /\ ~SetHas(st.sentToolBlockStarts, idx))
              => ~BlockReady(st, idx)]_vars

\* C24 witness: a block that began with a placeholder id got its start once a
\* later delta brought the real id, while another block that has only a
\* placeholder id has none
C24_Witness ==
    /\ thrown = ""
    /\ \E idx \in DOMAIN st.toolStates :
         /\ SetHas(st.sentToolBlockStarts, idx)
         /\ \E i \in 1..Len(logged) : logged[i] = [event |-> "TOOL_ID_UPDATED", index |-> idx]
    /\ \E idx \in DOMAIN st.toolStates :
         /\ ~SetHas(st.sentToolBlockStarts, idx)
         /\ StartsWithToolPh(st.toolStates[idx].id)

----------------------------------------------------------------------------
(* Reading the tool-call deltas received *)

\* the tool-call deltas of the chunks pulled, in arrival order
ToolDeltasPulled ==
    Flatten([i \in 1..Len(pulled) |->
               IF pulled[i].choices /\ pulled[i].delta THEN pulled[i].tool_calls ELSE <<>>])

\* those for the tool call in OpenAI slot k
SlotDeltas(k) == SelectSeq(ToolDeltasPulled, LAMBDA d : d.index = k)

\* the non-empty arguments fragments of a sequence of deltas
Fragments(deltas) ==
    LET carrying == SelectSeq(deltas, LAMBDA d : d.arguments # "")
    IN [i \in 1..Len(carrying) |-> carrying[i].arguments]

RECURSIVE ConcatStr(_)
ConcatStr(strings) ==
    IF strings = <<>> THEN "" ELSE Head(strings) \o ConcatStr(Tail(strings))

\* the position of the first delta by which an id and a name have both
\* arrived, or past the end
ReadyAt(deltas) ==
    LET ready == {j \in 1..Len(deltas) :
                    /\ \E i \in 1..j : deltas[i].id # NoId
                    /\ \E i \in 1..j : deltas[i].name # ""}
    IN IF ready = {} THEN Len(deltas) + 1
       ELSE CHOOSE j \in ready : \A m \in ready : j <= m

\* the partial_json payloads written for block idx, in order
EmittedPayloads(idx) ==
    LET deltas == SelectSeq(Events, LAMBDA e :
                      /\ e.type = "content_block_delta"
                      /\ e.index = idx
                      /\ e.delta.type = "input_json_delta")
    IN [i \in 1..Len(deltas) |-> deltas[i].delta.partial_json]

----------------------------------------------------------------------------
(* C25 *)

----------------------------------------------------------------------------
(* C26 *)

\* the fragments received for slot k, joined in arrival order
ReceivedArguments(k) == ConcatStr(Fragments(SlotDeltas(k)))

\* the texts over the fragments of the model that are JSON
ValidJSON(text) == text = "{}"

\* the parse failures logged at finalization for block idx
ParseFailures(idx) ==
    SelectSeq(logged, LAMBDA record :
                 record.event = "TOOL_ARGS_PARSE_FAILURE" /\ record.index = idx)

\* C26: the arguments_buffer of a tool block is at every point the fragments
\* received for its slot joined in arrival order (up to the fragment on which
\* the run failed, if it did), and the text finalization tests for JSON
\* validity, and logs when the test fails, is that joined text.
C26_BufferIsConcatenation ==
    \A k \in DOMAIN st.openaiToolIdxToAnthropicBlockIdx :
      LET idx == st.openaiToolIdxToAnthropicBlockIdx[k]
          buffer == st.toolStates[idx].arguments_buffer
          fragments == Fragments(SlotDeltas(k))
      IN /\ \E n \in 0..Len(fragments) : buffer = ConcatStr(SubSeq(fragments, 1, n))
         /\ thrown = "" => buffer = ReceivedArguments(k)
         /\ phase # "Closed" => ParseFailures(idx) = <<>>
         /\ phase = "Closed" =>
              ParseFailures(idx) =
                IF SetHas(st.sentToolBlockStarts, idx) /\ ~ValidJSON(ReceivedArguments(k))
                THEN <<[event |-> "TOOL_ARGS_PARSE_FAILURE", index |-> idx,
                        buffered_args |-> ReceivedArguments(k)]>>
                ELSE <<>>

\* C26 witness: a closed run in which a started block received two fragments
\* that do not make a JSON text, which the log record shows joined
C26_Witness ==
    /\ phase = "Closed"
    /\ \E k \in DOMAIN st.openaiToolIdxToAnthropicBlockIdx :
         /\ Len(Fragments(SlotDeltas(k))) = 2
         /\ Len(ParseFailures(st.openaiToolIdxToAnthropicBlockIdx[k])) = 1
         /\ ParseFailures(st.openaiToolIdxToAnthropicBlockIdx[k])[1].buffered_args
              = ReceivedArguments(k)

----------------------------------------------------------------------------
(* C27 *)

\* the positions in pulled of the chunks that carry a non-empty text delta
TextChunkPositions ==
    {i \in 1..Len(pulled) : pulled[i].choices /\ pulled[i].delta /\ pulled[i].content # ""}

\* their text deltas, in arrival order
TextsPulled ==
    LET carrying == SelectSeq(pulled, LAMBDA chunk :
                        chunk.choices /\ chunk.delta /\ chunk.content # "")
    IN [i \in 1..Len(carrying) |-> carrying[i].content]

\* the text_delta events and the starts of text blocks, in the order written
TextDeltaEvents ==
    SelectSeq(Events, LAMBDA e : e.type = "content_block_delta" /\ e.delta.type = "text_delta")
TextStartPositions ==
    {i \in Positions({"content_block_start"}) : Events[i].content_block.type = "text"}

\* the OpenAI slots seen in the chunks before position i
SlotsBefore(i) ==
    UNION {{pulled[j].tool_calls[m].index : m \in 1..Len(pulled[j].tool_calls)} :
              j \in {n \in 1..(i - 1) : pulled[n].choices /\ pulled[n].delta}}

----------------------------------------------------------------------------
(* C28 *)

\* what a chunk shows, in the order the loop body looks at it: its text
\* delta, then the slots of its tool-call deltas
Sightings(chunk) ==
    IF ~(chunk.choices /\ chunk.delta) THEN <<>>
    ELSE (IF chunk.content # "" THEN <<<<"text", 0>>>> ELSE <<>>)
         \o [m \in 1..Len(chunk.tool_calls) |-> <<"tool", chunk.tool_calls[m].index>>]

\* a sequence without the repetitions of its members
RECURSIVE FirstAppearances(_)
FirstAppearances(seen) ==
    IF seen = <<>> THEN <<>>
    ELSE LET earlier == FirstAppearances(SubSeq(seen, 1, Len(seen) - 1))
             last == seen[Len(seen)]
         IN IF \E i \in 1..Len(earlier) : earlier[i] = last THEN earlier
            ELSE Append(earlier, last)

\* the blocks of the run in order of first appearance
BlocksInOrder == FirstAppearances(Flatten([i \in 1..Len(pulled) |-> Sightings(pulled[i])]))

\* the block indices assigned so far
AssignedIndices(locals) ==
    (IF locals.textBlockAnthropicIdx # NoIdx THEN {locals.textBlockAnthropicIdx} ELSE {})
    \cup {locals.openaiToolIdxToAnthropicBlockIdx[k] :
             k \in DOMAIN locals.openaiToolIdxToAnthropicBlockIdx}

\* the number of blocks that have an index
BlockCount(locals) ==
    (IF locals.textBlockAnthropicIdx # NoIdx THEN 1 ELSE 0)
    + Cardinality(DOMAIN locals.openaiToolIdxToAnthropicBlockIdx)

C28_IndicesInOrder ==
    /\ AssignedIndices(st) = 0..(st.nextAnthropicBlockIdx - 1)
    /\ Cardinality(AssignedIndices(st)) = BlockCount(st)
    /\ DOMAIN st.toolStates =
         {st.openaiToolIdxToAnthropicBlockIdx[k] : k \in DOMAIN st.openaiToolIdxToAnthropicBlockIdx}
    /\ thrown = "" =>
         /\ Len(BlocksInOrder) = st.nextAnthropicBlockIdx
         /\ \A i \in 1..Len(BlocksInOrder) :
              IF BlocksInOrder[i][1] = "text"
              THEN st.textBlockAnthropicIdx = i - 1
              ELSE /\ BlocksInOrder[i][2] \in DOMAIN st.openaiToolIdxToAnthropicBlockIdx
                   /\ st.openaiToolIdxToAnthropicBlockIdx[BlocksInOrder[i][2]] = i - 1

\* C28: the indices given out are always 0 up to the next free index less
\* one, each to one block; in a run without an exception the i-th block to
\* appear (the text block or a new tool slot) has index i - 1; the next free
\* index grows by one for each block that gets an index in a step, and an
\* index once given to the text block or to a slot is never changed.
C28_BlockIndices ==
    /\ []C28_IndicesInOrder
    /\ [][/\ st'.nextAnthropicBlockIdx - st.nextAnthropicBlockIdx
               = BlockCount(st') - BlockCount(st)
          /\ st'.nextAnthropicBlockIdx >= st.nextAnthropicBlockIdx
          /\ st.textBlockAnthropicIdx # NoIdx
               => st'.textBlockAnthropicIdx = st.textBlockAnthropicIdx
          /\ \A k \in DOMAIN st.openaiToolIdxToAnthropicBlockIdx :
               /\ k \in DOMAIN st'.openaiToolIdxToAnthropicBlockIdx
               /\ st'.openaiToolIdxToAnthropicBlockIdx[k]
                    = st.openaiToolIdxToAnthropicBlockIdx[k]]_vars

\* C28 witness: slot 1 appeared first, then the text block, then slot 0, and
\* got the indices 0, 1 and 2
C28_Witness ==
    /\ thrown = ""
    /\ BlocksInOrder = <<<<"tool", 1>>, <<"text", 0>>, <<"tool", 0>>>>
    /\ st.textBlockAnthropicIdx = 1
    /\ st.openaiToolIdxToAnthropicBlockIdx[1] = 0
    /\ st.openaiToolIdxToAnthropicBlockIdx[0] = 2

----------------------------------------------------------------------------
(* C29 *)

\* the handler run alone with the given encoder: its call
AloneStart(encoder) ==
    writeSSE(writeSSE(Frame([InitialLocals EXCEPT !.encoder = encoder], <<>>, <<>>, ""),
                      messageStartEventData),
             [type |-> "ping"])

\* alone: its loop over the chunks
RECURSIVE AloneLoop(_, _)
AloneLoop(f, chunks) ==
    IF chunks = <<>> THEN f
    ELSE LET g == ProcessChunk(f, Head(chunks))
         IN IF g.thrown # "" \/ IsTerminal(Head(chunks)) THEN g
            ELSE AloneLoop(g, Tail(chunks))

\* alone: the frame it would have reached on the chunks request req has
\* pulled, at the phase req is in
AloneRun(req) ==
    LET f == AloneLoop(AloneStart(req.st.encoder), req.pulled)
    IN CASE req.phase = "Active" -> f
         [] req.phase = "Closed" -> Epilogue(f)
         [] req.phase = "Erred" ->
              IF f.thrown # "" THEN Epilogue(f) ELSE Epilogue(Throw(f, req.thrown))

C29_AsIfAlone ==
    \A r \in DOMAIN proc.reqs :
      LET req == proc.reqs[r] IN
      IF req.kind = "stream" /\ req.phase \in {"Active", "Closed", "Erred"}
      THEN /\ req.events = AloneRun(req).events
           /\ req.st = AloneRun(req).st
           /\ req.logged = AloneRun(req).logged
           /\ req.thrown = AloneRun(req).thrown
           /\ req.st.encoder = proc.cache[1].kind
      ELSE /\ req.events = <<>>
           /\ req.st = InitialLocals

\* C29: however the chunk arrivals of two concurrent streams interleave, the
\* events written to each response, and each handler's block indices,
\* buffers, started blocks, token count and stop reason, are those the
\* handler would have when run alone on its own chunks; a step of one
\* request changes nothing of another.
C29_StreamsIsolated ==
    /\ []C29_AsIfAlone
    /\ [][\A r \in DOMAIN proc.reqs : \A q \in DOMAIN proc.reqs \ {r} :
            proc'.reqs[r] # proc.reqs[r] => proc'.reqs[q] = proc.reqs[q]]_vars

\* C29 witness: both streams pulled two chunks, not the same ones, one
\* opened a tool block and the other a text block, and both are closed
C29_Witness ==
    /\ proc.reqs # <<>>
    /\ proc.reqs[1].phase = "Closed"
    /\ proc.reqs[2].phase = "Closed"
    /\ Len(proc.reqs[1].pulled) = MaxConcurrentFragments
    /\ Len(proc.reqs[2].pulled) = MaxConcurrentFragments
    /\ proc.reqs[1].st.textBlockAnthropicIdx = 0
    /\ proc.reqs[2].st.textBlockAnthropicIdx = NoIdx
    /\ proc.reqs[2].st.sentToolBlockStarts = <<0>>

----------------------------------------------------------------------------
(* C30 *)

\* the tool blocks that are not ready
UnreadyBlocks == {idx \in DOMAIN st.toolStates : ~BlockReady(st, idx)}

\* C30: a tool block that has no real id or no name has an index below the
\* next free one and no event at all, at no point of the run and not after
\* finalization either, while its fragments are in its buffer and in the
\* token count.
C30_UnreadyBlockIsSilent ==
    /\ \A idx \in UnreadyBlocks :
         /\ idx < st.nextAnthropicBlockIdx
         /\ ~SetHas(st.sentToolBlockStarts, idx)
         /\ \A i \in 1..Len(Events) :
              Events[i].type \in BlockEventTypes => Events[i].index # idx
    /\ thrown = "" =>
         /\ st.outputTokenCount = ConsumedTokens(st.encoder, pulled)
         /\ \A k \in DOMAIN st.openaiToolIdxToAnthropicBlockIdx :
              st.toolStates[st.openaiToolIdxToAnthropicBlockIdx[k]].arguments_buffer
                = ReceivedArguments(k)

\* C30 witness: a closed run whose block 0 never got an id or a name though
\* a fragment arrived for it and was counted, and whose only events with an
\* index are those of block 1
C30_Witness ==
    /\ phase = "Closed"
    /\ 0 \in UnreadyBlocks
    /\ st.toolStates[0].arguments_buffer # ""
    /\ UsedBlockIndices = {1}
    /\ Events[Len(Events) - 1].output_tokens >= 2
====
